---- MODULE Spec2Model ----
(***************************************************************************)
(* The jodin virtual machine (jodin-rs-vm/src/vm.rs): the loader, the      *)
(* fetch/execute loop, message dispatch, the call mechanism and the fault  *)
(* subsystem, as a state machine.  Instruction indices are the indices of  *)
(* the Rust vector (0-based); InstrAt(i) reads index i.                    *)
(***************************************************************************)
EXTENDS Integers, Sequences, FiniteSets, TLC

\* ------------------------------------------------------------------ bounds
MaxCalls == 3
MaxAnon == 2
MaxStack == 4

\* Cells the heap may hold.
MaxHeap == 4

\* Calls of to_magic_number and verify_magic_number.
MaxMagicCalls == 3

\* Calls that change an IdentifierResolver.
MaxResolverCalls == 5

\* ------------------------------------------------------------ small helpers
Front(s) == SubSeq(s, 1, Len(s) - 1)

Last(s) == s[Len(s)]

RECURSIVE Reverse(_)
Reverse(s) == IF s = <<>> THEN <<>> ELSE Append(Reverse(Tail(s)), Head(s))

EmptyMap == [x \in {} |-> 0]

\* The modulus of "u as u32".  TLC's integers are 32 bits wide, so the
\* widths are scaled: a u32 is modelled with 16 bits.
U32 == 65536

\* ------------------------------------------------------------------ values
CALL == "CALL"

Empty == [t |-> "Empty"]

Native == [t |-> "Native"]

UInteger(u) == [t |-> "UInteger", u |-> u]

Str(s) == [t |-> "Str", s |-> s]

Array(a) == [t |-> "Array", a |-> a]

Function(loc) == [t |-> "Function", f |-> loc]

Bytecode(b) == [t |-> "Bytecode", b |-> b]

Integer(i) == [t |-> "Integer", i |-> i]

Byte(b) == [t |-> "Byte", b |-> b]

\* A Dictionary holds a map from its keys to Values.
Dictionary(d) == [t |-> "Dictionary", d |-> d]

\* A Reference is a handle to a shared cell: c is the cell's place in the
\* heap, and two handles alias when they name the same cell.
Reference(c) == [t |-> "Reference", c |-> c]

\* AsmLocation
ByteIndex(i) == [k |-> "ByteIndex", i |-> i]

InstructionDiff(d) == [k |-> "InstructionDiff", d |-> d]

AsmLabel(l) == [k |-> "Label", l |-> l]

\* ------------------------------------------------------------ instructions
Label(l) == [op |-> "Label", l |-> l]

PublicLabel(l) == [op |-> "PublicLabel", l |-> l]

Nop == [op |-> "Nop"]

Halt == [op |-> "Halt"]

Static == [op |-> "Static"]

Push(v) == [op |-> "Push", v |-> v]

Pop == [op |-> "Pop"]

Return == [op |-> "Return"]

GetSymbol(s) == [op |-> "GetSymbol", s |-> s]

SendMessage == [op |-> "SendMessage"]

NativeMethod(name, n) == [op |-> "NativeMethod", name |-> name, n |-> n]

Divide == [op |-> "Divide"]

SetVar(v) == [op |-> "SetVar", v |-> v]

GetVar(v) == [op |-> "GetVar", v |-> v]

ClearVar(v) == [op |-> "ClearVar", v |-> v]

IntoReference == [op |-> "IntoReference"]

Deref == [op |-> "Deref"]

SetRef == [op |-> "SetRef"]

Subtract == [op |-> "Subtract"]

Add == [op |-> "Add"]

Goto(location) == [op |-> "Goto", location |-> location]

CondGoto(location) == [op |-> "CondGoto", location |-> location]

Pack(len) == [op |-> "Pack", len |-> len]

\* The key of a dictionary that takes over the dictionary's messages.
RECEIVE_MESSAGE == "@@RECEIVE_MESSAGE"

\* ---------------------------------------------------------------- programs
\* The assemblies the host may hand to load / load_static.
ProgHandler == <<Label("handler"), Push(UInteger(2)), Halt>>

ProgMain == <<PublicLabel("main"), Push(UInteger(7)), GetSymbol("ghost"), Return>>

ProgS6 == <<PublicLabel("start"), GetSymbol("ghost"),
            Label("handler"), Push(UInteger(2)), Halt>>

ProgKeep == <<PublicLabel("keep"), Push(UInteger(7)), GetSymbol("ghost"),
              Label("@@tmp"), Push(UInteger(5)), Halt>>

ProgCall == <<Label("g"), Pop, Push(UInteger(1)), Return,
              Label("f"), Push(Array(<<UInteger(3)>>)), Push(Str(CALL)),
              GetSymbol("g"), SendMessage, Return,
              PublicLabel("callmain"), Push(Array(<<>>)), Push(Str(CALL)),
              GetSymbol("f"), SendMessage, Return>>

ProgTmp == <<Label("@@tmp"), Nop, Label("@@tmp"), Return>>

ProgStatic == <<Static, Push(UInteger(0)), Return>>

ProgStatic2 == <<Label("s2"), Static, Push(UInteger(0)), Return,
                 Static, Push(UInteger(0)), Return>>

ProgBytecode == <<Label("bc"), Push(Array(<<>>)), Push(Str(CALL)),
                  Push(Bytecode(1)), SendMessage, Return>>

ProgBcStatic == <<Label("bcs"), Push(Array(<<>>)), Push(Str(CALL)),
                  Push(Bytecode(2)), SendMessage, Return>>

ProgScope == <<Label("scoped"), NativeMethod("@push_scope", 0),
               Push(UInteger(5)), Push(UInteger(0)), Return>>

ProgGlobal == <<Label("glob"), NativeMethod("@global_scope", 0),
                NativeMethod("@push_scope", 0), NativeMethod("@pop_scope", 0),
                NativeMethod("@back_scope", 0), Push(UInteger(0)), Halt>>

\* Entry points that exit with a UInteger, with a value of another type and
\* with a UInteger too wide for the exit code; a division; a message sent to
\* a primitive; a call with two arguments.
ProgExit == <<PublicLabel("seven"), Push(UInteger(7)), Return,
              PublicLabel("strexit"), Push(UInteger(5)), Push(Str("x")), Return,
              PublicLabel("wide"), Push(UInteger(U32 + 7)), Return,
              PublicLabel("div"), Push(UInteger(6)), Push(UInteger(3)), Divide,
              Return,
              PublicLabel("prim"), Push(Array(<<>>)), Push(Str("foo")),
              Push(UInteger(1)), SendMessage, Push(UInteger(0)), Return,
              PublicLabel("pair"), Push(UInteger(8)),
              Push(Array(<<UInteger(1), UInteger(2)>>)),
              Push(Str(CALL)), GetSymbol("first"), SendMessage, Return,
              Label("first"), Return>>

\* Native methods: @call of print, copy, and invoke with its operands in the
\* order target, message, arguments from the top and in the reverse order,
\* and invoke of CALL on a Function.
ProgNative == <<PublicLabel("atcall"), Push(UInteger(4)), Push(Str("print")),
                NativeMethod("@call", 2), Return,
                PublicLabel("copy"), Push(UInteger(3)), NativeMethod("copy", 1),
                Return,
                PublicLabel("invoke"), Push(Array(<<>>)), Push(Str("foo")),
                Push(UInteger(1)), NativeMethod("invoke", 3),
                Push(UInteger(0)), Return,
                PublicLabel("invoke_rev"), Push(UInteger(1)), Push(Str("foo")),
                Push(Array(<<>>)), NativeMethod("invoke", 3),
                Push(UInteger(0)), Return,
                PublicLabel("invoke_fn"), GetSymbol("callee"), Push(Str(CALL)),
                Push(Array(<<>>)), NativeMethod("invoke", 3),
                Push(UInteger(0)), Return,
                Label("callee"), Push(UInteger(6)), Return>>

\* Variables, references, dictionaries, saved scopes and arithmetic: a write
\* through the Reference of a variable; a Reference made by IntoReference,
\* duplicated and written through one copy; put and get on a dictionary
\* held in a variable; a scope saved, changed and loaded; a subtraction
\* followed by an addition.
ProgObjects == <<PublicLabel("alias"), Push(Integer(1)), SetVar(0),
                 Push(Integer(42)), GetVar(0), SetRef,
                 GetVar(0), Deref, Return,
                 PublicLabel("s4"), Push(Integer(1)), IntoReference,
                 NativeMethod("copy", 1), SetVar(1), Push(Integer(42)),
                 GetVar(1), Deref, SetRef, Deref, Return,
                 PublicLabel("dict"), Push(Dictionary(EmptyMap)), SetVar(0),
                 Push(Array(<<Str("x"), Integer(5)>>)), Push(Str("put")),
                 GetVar(0), SendMessage, Pop,
                 Push(Array(<<Str("x")>>)), Push(Str("get")),
                 GetVar(0), SendMessage, Return,
                 PublicLabel("scope"), Push(Integer(1)), SetVar(0),
                 Push(Str("k")), NativeMethod("@save_scope", 1),
                 Push(Integer(2)), SetVar(0), ClearVar(0),
                 NativeMethod("@push_scope", 0), Push(Integer(3)), SetVar(1),
                 NativeMethod("@pop_scope", 0),
                 Push(Str("k")), NativeMethod("@load_scope", 1),
                 GetVar(0), Deref, Return,
                 PublicLabel("s2"), Push(Integer(10)), Push(Integer(3)),
                 Subtract, Push(UInteger(0)), Add, Return>>

\* Jumps and Pack: a jump to the reserved index 0 and one past the end of
\* the instructions of every sequence of loads; conditional jumps on a Byte, an Integer, the null
\* Reference, a Reference to a cell and an Empty, by a positive and a
\* negative difference, to an index and to a label; two values and no value
\* packed.
ProgJumps == <<PublicLabel("zero"), Push(UInteger(3)), Goto(ByteIndex(0)),
               PublicLabel("past"), Push(UInteger(4)),
               Goto(InstructionDiff(1000)),
               Label("out"), Return,
               PublicLabel("cond"), Push(UInteger(1)), Push(Byte(1)),
               CondGoto(InstructionDiff(2)), Halt,
               Push(Integer(5)), CondGoto(AsmLabel("out")),
               Push(Reference(0)), CondGoto(ByteIndex(0)),
               Push(Byte(0)), CondGoto(ByteIndex(0)),
               Push(Empty), CondGoto(ByteIndex(0)),
               Push(Integer(1)), IntoReference,
               CondGoto(InstructionDiff(-17)), Halt,
               PublicLabel("pack"), Push(Integer(1)), Push(Integer(2)),
               Pack(2), Pack(0), Pop, Pop, Push(UInteger(0)),
               Goto(AsmLabel("out"))>>

\* A call of a label that a plugin may provide, a dynamic_call, and a call
\* with two arguments of a label that is loaded and that a plugin may
\* provide too, after which the arguments and the result are popped.
ProgPlugins == <<PublicLabel("plugged"), Push(Array(<<>>)), Push(Str(CALL)),
                 Push(Function(AsmLabel("nested"))), SendMessage, Return,
                 PublicLabel("dynamic"), Push(Str("leaf")),
                 NativeMethod("dynamic_call", 1), Return,
                 PublicLabel("shadow"),
                 Push(Array(<<UInteger(1), UInteger(2)>>)), Push(Str(CALL)),
                 Push(Function(AsmLabel("leaf"))), SendMessage,
                 Pop, Pop, Pop, Push(UInteger(0)), Return,
                 Label("leaf"), Push(UInteger(4)), Return>>

\* Messages to dictionaries: get and put sent to a dictionary whose
\* RECEIVE_MESSAGE key holds a Function; get sent to one whose key holds
\* Native, put sent to one without the key, and a message that no dictionary
\* takes.
ProgReceive == <<PublicLabel("forward"), Push(Array(<<Str("x")>>)),
                 Push(Str("get")),
                 Push(Dictionary((RECEIVE_MESSAGE :> Function(AsmLabel("recv")))
                                 @@ ("x" :> UInteger(5)))),
                 SendMessage, Return,
                 Label("recv"), Pop, Push(UInteger(6)), Return,
                 PublicLabel("fput"), Push(Array(<<Str("x")>>)),
                 Push(Str("put")),
                 Push(Dictionary(RECEIVE_MESSAGE :> Function(AsmLabel("recv")))),
                 SendMessage, Return,
                 PublicLabel("builtin"), Push(Array(<<Str("x")>>)),
                 Push(Str("get")),
                 Push(Dictionary((RECEIVE_MESSAGE :> Native)
                                 @@ ("x" :> UInteger(5)))),
                 SendMessage,
                 Push(Array(<<Str("y"), Integer(1)>>)), Push(Str("put")),
                 Push(Dictionary(EmptyMap)), SendMessage, Pop,
                 Push(Array(<<>>)), Push(Str("len")),
                 Push(Dictionary(EmptyMap)), SendMessage, Return>>

\* The assemblies of the specification of variables, references and plugins.
ObjectAssemblies == {ProgObjects, ProgS6, ProgPlugins, ProgJumps,
                     ProgReceive}

StaticRegions == {ProgHandler, ProgScope, ProgGlobal, ProgStatic}

Assemblies == {ProgHandler, ProgMain, ProgS6, ProgKeep, ProgCall, ProgTmp,
               ProgStatic, ProgStatic2, ProgBytecode, ProgBcStatic,
               ProgScope, ProgGlobal, ProgExit, ProgNative}

\* The plugins the host can register, each the functions it provides: the
\* native calls a function makes back through the VM handle, in order, and
\* the value it returns.  "nested" calls back into dynamic_call.
Plugins ==
    ("base" :> ("leaf" :> [natives |-> <<>>, result |-> UInteger(7)]))
    @@ ("nest" :>
          (("nested" :>
               [natives |-> <<[method |-> "dynamic_call",
                               values |-> <<Str("inner")>>]>>,
                result |-> UInteger(8)])
           @@ ("inner" :> [natives |-> <<>>, result |-> UInteger(9)])))

\* Bytecode values are opaque byte strings; decode yields the assembly that
\* was encoded into them.
decode(b) ==
    CASE b = 1 -> <<Push(UInteger(9)), Return>>
      [] b = 2 -> <<Static, Push(UInteger(0)), Return>>
      [] OTHER -> <<>>

\* ------------------------------------------------------------ asm_version
\* u64 scaled as U32 is: a width that TLC's integers can multiply in.
U64 == 1048576

\* The bytes of format!("jodin_asm_version_{}", VERSION_STRING).
version_string_full ==
    <<106, 111, 100, 105, 110, 95, 97, 115, 109, 95, 118, 101, 114, 115, 105,
      111, 110, 95, 49, 46, 48>>

\* u64::pow by repeated multiplication: the wrapped value, and whether the
\* true value left the width (where a build with overflow checks panics).
RECURSIVE pow(_, _)
pow(base, exp) ==
    IF exp = 0 THEN [value |-> 1, overflow |-> FALSE]
    ELSE LET p == pow(base, exp - 1)
         IN  [value |-> (p.value * base) % U64,
              overflow |-> p.overflow \/ p.value * base >= U64]

\* The body of the loop of to_magic_number: wrapping_sub for the exponent;
\* pow, * and += wrap or report the overflow.
magic_iteration(sum, index) ==
    LET mult == index + 1
        p == pow(version_string_full[index + 1], (31 - index + U32) % U32)
        add_ == (p.value * mult) % U64
    IN  [sum |-> (sum + add_) % U64,
         overflow |-> \/ p.overflow
                      \/ p.value * mult >= U64
                      \/ sum + add_ >= U64]

\* The sum of the claim: every power, product and sum taken modulo the width.
RECURSIVE magic_sum(_)
magic_sum(n) ==
    IF n = 0 THEN 0
    ELSE (magic_sum(n - 1)
          + ((pow(version_string_full[n], 31 - (n - 1)).value * n) % U64)) % U64

MagicConstant == magic_sum(Len(version_string_full))

\* The numbers handed to verify_magic_number.
MagicNumbers == {0, MagicConstant, (MagicConstant + 1) % U64}

MagicIdle(build) ==
    [build |-> build, phase |-> "idle", index |-> 0, sum |-> 0, caller |-> "",
     number |-> 0, calls |-> 0, returned |-> [t |-> "none"]]

\* ------------------------------------------------------ identifier resolver
\* IdentifierResolver (jodin-common/src/core/identifier_resolution.rs).  An
\* Identifier is the sequence of its names; the namespace tree is the set of
\* the ids of its nodes and the set of the values related to them.
BASE_NAMESPACE == <<"{base}">>

\* IdentifierResolver::new(): the tree holds the node of the base namespace.
IdentifierResolver ==
    [current_namespace |-> <<>>, using_namespaces |-> <<>>,
     namespaces |-> {BASE_NAMESPACE}, objects |-> {},
     returned |-> [t |-> "none"], calls |-> 0]

current_namespace_with_base(r) == BASE_NAMESPACE \o r.current_namespace

\* NamespaceTree::add_namespace: the node and the missing nodes above it.
add_namespace(r, namespace) ==
    [r EXCEPT !.namespaces =
        @ \cup {SubSeq(namespace, 1, k) : k \in 1..Len(namespace)}]

\* NamespaceTree::get_from_absolute_identifier: the walk over the nodes of
\* the namespaces of the path, then the search among the last node's values.
get_from_absolute_identifier(r, path) ==
    /\ \A k \in 1..(Len(path) - 1) : SubSeq(path, 1, k) \in r.namespaces
    /\ path \in r.objects

\* NamespaceTree::get_namespaces: the path as absolute; the walk from the
\* current namespace gives up at the first name of a path that has one.
get_namespaces(r, path, current) ==
    {id \in {BASE_NAMESPACE \o path} : id \in r.namespaces}
        \cup {id \in {current} : path = <<>> /\ id \in r.namespaces}

push_namespace(r, namespace) ==
    LET full_path == current_namespace_with_base(r) \o namespace
    IN  [add_namespace(r, full_path) EXCEPT !.current_namespace = Tail(full_path),
                                            !.returned = [t |-> "none"]]

pop_namespace(r) ==
    [r EXCEPT !.current_namespace = IF Len(@) > 1 THEN Front(@) ELSE <<>>,
              !.returned = [t |-> "none"]]

use_namespace(r, namespace) ==
    LET resolved_set == get_namespaces(r, namespace, current_namespace_with_base(r))
    IN  CASE resolved_set = {} ->
               [r EXCEPT !.returned = [t |-> "IdentifierDoesNotExist",
                                       given |-> namespace]]
          [] Cardinality(resolved_set) >= 2 ->
               [r EXCEPT !.returned = [t |-> "AmbiguousIdentifierError",
                                       given |-> namespace,
                                       found |-> resolved_set]]
          [] OTHER ->
               [r EXCEPT !.using_namespaces =
                             Append(@, CHOOSE id \in resolved_set : TRUE),
                         !.returned = [t |-> "none"]]

create_absolute_path(r, id) ==
    LET full_path == current_namespace_with_base(r) \o id
    IN  [add_namespace(r, Front(full_path)) EXCEPT
             !.objects = @ \cup {full_path},
             !.returned = [t |-> "Ok", id |-> Tail(full_path)]]

\* resolve_path without the path relative to the current namespace.
resolve_path_absolute_only(r, path) ==
    LET absolute_path == BASE_NAMESPACE \o path
        using == {r.using_namespaces[k] \o path : k \in DOMAIN r.using_namespaces}
        output == {id \in {absolute_path} \cup using :
                       get_from_absolute_identifier(r, id)}
    IN  CASE output = {} -> [t |-> "IdentifierDoesNotExist", given |-> path]
          [] Cardinality(output) = 1 ->
               [t |-> "Ok", id |-> Tail(CHOOSE id \in output : TRUE)]
          [] OTHER ->
               [t |-> "AmbiguousIdentifierError", given |-> path,
                found |-> {Tail(id) : id \in output}]

\* resolve_path(path, false): found is a set, for the order in which the
\* HashSet yields it is not fixed.
resolve_path(r, path) ==
    LET absolute_path == BASE_NAMESPACE \o path
        relative_path == current_namespace_with_base(r) \o path
        relative == IF r.current_namespace /= <<>> /\ relative_path /= absolute_path
                    THEN {relative_path} ELSE {}
        using == {r.using_namespaces[k] \o path : k \in DOMAIN r.using_namespaces}
        output == {id \in {absolute_path} \cup relative \cup using :
                       get_from_absolute_identifier(r, id)}
    IN  CASE output = {} -> [t |-> "IdentifierDoesNotExist", given |-> path]
          [] Cardinality(output) = 1 ->
               [t |-> "Ok", id |-> Tail(CHOOSE id \in output : TRUE)]
          [] OTHER ->
               [t |-> "AmbiguousIdentifierError", given |-> path,
                found |-> {Tail(id) : id \in output}]

\* ------------------------------------------------------------------- state
VARIABLES
    instructions,               \* Assembly: the instruction vector
    label_to_instruction,       \* HashMap<String, usize>
    counter_stack,              \* Vec<usize>
    cont,                       \* the continue flag
    stack,                      \* memory: the operand stack
    scopes,                     \* memory: the stack of variable scopes
    global_saved,               \* memory: scope stacks saved by global_scope
    scope_dict,                 \* memory: scopes saved under a key
    heap,                       \* the shared cells behind the References
    plugin_manager,             \* Arc<RwLock<PluginManager>> and its guards
    handler,                    \* Option<FaultHandle>
    kernel_mode,
    fault_table,                \* FaultJumpTable
    next_anonymous_function,
    ctl,                        \* the active run_from_index / load activations
    status,                     \* ok, or the panic that ended the VM
    result,                     \* what the last run returned
    api,                        \* the last call the host made
    last_fault,                 \* the handle end_fault has just ended, until the
                                \* next instruction or host call
    calls,                      \* how many calls the host has made
    resolver,                   \* an IdentifierResolver and what it last returned
    magic,                      \* asm_version: a call of to_magic_number
    saved_tables,               \* history: the variable table at each @save_scope
    run_base                    \* the call stack the last run() started on

vars == <<instructions, label_to_instruction, counter_stack, cont, stack,
          scopes, global_saved, scope_dict, heap, handler, kernel_mode, fault_table,
          next_anonymous_function, ctl, status, result, api, last_fault,
          calls, run_base, saved_tables, magic, resolver, plugin_manager>>

NoHandle == [t |-> "None"]

StatusOk == [t |-> "ok", why |-> "", arg |-> ""]

InstrAt(i) == instructions[i + 1]

\* The VM's fields as one record, for the operators that compute a step.
VM == [instructions |-> instructions,
       label_to_instruction |-> label_to_instruction,
       counter_stack |-> counter_stack,
       cont |-> cont,
       stack |-> stack,
       scopes |-> scopes,
       global_saved |-> global_saved,
       scope_dict |-> scope_dict,
       heap |-> heap,
       plugin_manager |-> plugin_manager,
       handler |-> handler,
       kernel_mode |-> kernel_mode,
       fault_table |-> fault_table,
       next_anonymous_function |-> next_anonymous_function,
       status |-> StatusOk]

Commit(m) ==
    /\ instructions' = m.instructions
    /\ label_to_instruction' = m.label_to_instruction
    /\ counter_stack' = m.counter_stack
    /\ cont' = m.cont
    /\ stack' = m.stack
    /\ scopes' = m.scopes
    /\ global_saved' = m.global_saved
    /\ scope_dict' = m.scope_dict
    /\ heap' = m.heap
    /\ plugin_manager' = m.plugin_manager
    /\ handler' = m.handler
    /\ kernel_mode' = m.kernel_mode
    /\ next_anonymous_function' = m.next_anonymous_function
    /\ status' = m.status
    /\ UNCHANGED fault_table

Panic(m, why, arg) == [m EXCEPT !.status = [t |-> "panic", why |-> why, arg |-> arg]]

\* ------------------------------------------------------------------ memory
push(m, v) == [m EXCEPT !.stack = Append(@, v)]

push_scope(m) == [m EXCEPT !.scopes = Append(@, EmptyMap)]

\* The global scope (position 0) is always retained.
pop_scope(m) == [m EXCEPT !.scopes = IF Len(@) > 1 THEN Front(@) ELSE @]

global_scope(m) ==
    [m EXCEPT !.global_saved = Append(@, m.scopes), !.scopes = <<m.scopes[1]>>]

back_scope(m) ==
    IF m.global_saved = <<>> THEN m
    ELSE [m EXCEPT !.scopes = <<m.scopes[1]>> \o Tail(Last(m.global_saved)),
                   !.global_saved = Front(@)]

save_current_scope(m, key) ==
    [m EXCEPT !.scope_dict = (key :> Last(m.scopes)) @@ @]

\* A new cell holding v; the handle to it is Reference(Len(heap)).
alloc(m, v) == [m EXCEPT !.heap = Append(@, v)]

\* set_var binds the slot of the current scope to a new cell holding value.
set_var(m, v, value) ==
    [alloc(m, value) EXCEPT
        !.scopes[Len(m.scopes)] = (v :> (Len(m.heap) + 1)) @@ @]

\* The cell of the slot in the current scope; 0 stands for None.
get_var(m, v) ==
    IF v \in DOMAIN Last(m.scopes) THEN Last(m.scopes)[v] ELSE 0

\* The current scope is replaced by the one saved under the key, if any.
load_scope(m, key) ==
    IF key \in DOMAIN m.scope_dict
    THEN [m EXCEPT !.scopes = Front(@) \o <<m.scope_dict[key]>>]
    ELSE m

\* ------------------------------------------------------------------ loader
starts_with(s, prefix) ==
    Len(s) >= Len(prefix) /\ SubSeq(s, 1, Len(prefix)) = prefix

is_label(a) == a.op \in {"Label", "PublicLabel"}

\* bind_label with the occupied entry always overwritten.
bind_label_overwrites(m, asm_label, label_index) ==
    [m EXCEPT !.label_to_instruction = (asm_label :> label_index) @@ @]

\* bind_label with an occupied "@@" entry left as it is.
bind_label_keeps_first(m, asm_label, label_index) ==
    IF asm_label \in DOMAIN m.label_to_instruction
    THEN IF starts_with(asm_label, "@@") THEN m
         ELSE Panic(m, "label already registered", asm_label)
    ELSE [m EXCEPT !.label_to_instruction = (asm_label :> label_index) @@ @]

\* The entry() match of load: an occupied entry is overwritten only for a
\* "@@" label, a vacant one is inserted.
bind_label(m, asm_label, label_index) ==
    IF asm_label \in DOMAIN m.label_to_instruction /\ ~starts_with(asm_label, "@@")
    THEN Panic(m, "label already registered", asm_label)
    ELSE [m EXCEPT !.label_to_instruction = (asm_label :> label_index) @@ @]

\* push_instruction inserting at the front of the vector.
push_instruction_front(m, asm) == [m EXCEPT !.instructions = <<asm>> \o @]

\* push_instruction by a loader that starts from an empty call stack.
push_instruction_resets(m, asm) ==
    [m EXCEPT !.instructions = Append(@, asm), !.counter_stack = <<>>]

\* self.instructions.push(asm)
push_instruction(m, asm) == [m EXCEPT !.instructions = Append(@, asm)]

\* The for loop of load over asm[i..], the assembly starting at start_index.
RECURSIVE load_append(_, _, _, _, _)
load_append(m, asm, i, start_index, static_instructions) ==
    IF i > Len(asm)
    THEN [vm |-> m, static_instructions |-> static_instructions]
    ELSE LET a == asm[i]
             label_index == start_index + (i - 1)
             bound == IF is_label(a) THEN bind_label(m, a.l, label_index) ELSE m
         IN  IF bound.status.t /= "ok"
             THEN [vm |-> bound, static_instructions |-> static_instructions]
             ELSE load_append(push_instruction(bound, a), asm, i + 1, start_index,
                              IF a.op = "Static"
                              THEN static_instructions \cup {label_index}
                              ELSE static_instructions)

\* ------------------------------------------------------------------- fault
MissingSymbol(s) == [kind |-> "MissingSymbol", s |-> s]

DoubleFault == [kind |-> "DoubleFault"]

NoEntry == [t |-> "NoEntry"]

get_fault_jump(m, f) == m.fault_table[f.kind]

FaultHandle(stored_pc, stored_stack, f, target_function) ==
    [t |-> "Some", stored_pc |-> stored_pc, stored_stack |-> stored_stack,
     fault |-> f, target_function |-> target_function]

\* The tail of fault(): the handle becomes the active one, the handler's
\* index is pushed and kernel mode is entered.
enter_fault(m, handle, next_pc) ==
    [m EXCEPT !.handler = handle,
              !.counter_stack = Append(@, next_pc),
              !.kernel_mode = TRUE]

\* One activation of fault(); double tells that it ended in the recursive
\* self.fault(Fault::DoubleFault) instead of installing its handle.
fault_once(m, f) ==
    LET target == get_fault_jump(m, f)
        handle == FaultHandle(m.counter_stack, m.stack, f, target)
        taken == [m EXCEPT !.counter_stack = <<0>>, !.stack = <<>>]
    IN  CASE target.t = "NoEntry" ->
               [vm |-> Panic(m, "no fault jump", f.kind), double |-> FALSE]
          [] target.t = "Function" /\ target.f.k = "Label" ->
               IF target.f.l \in DOMAIN m.label_to_instruction
               THEN [vm |-> enter_fault(taken, handle,
                                        m.label_to_instruction[target.f.l]),
                     double |-> FALSE]
               ELSE [vm |-> taken, double |-> TRUE]
          [] target.t = "Native" ->
               [vm |-> enter_fault(taken, handle, 0), double |-> FALSE]
          [] OTHER ->
               [vm |-> Panic(taken, "Invalid value for fault jump target", ""),
                double |-> FALSE]

\* fault(): a DoubleFault whose own target is an unbound label raises
\* DoubleFault again from the same state, without end.
fault(m, f) ==
    LET first == fault_once(m, f)
        second == fault_once(first.vm, DoubleFault)
    IN  IF ~first.double THEN first.vm
        ELSE IF ~second.double THEN second.vm
        ELSE Panic(second.vm, "stack overflow", "")

\* --------------------------------------------------------- message dispatch
None == [some |-> FALSE, pc |-> 0]

Some(pc) == [some |-> TRUE, pc |-> pc]

\* Static runs that a load made by send_message still has to make: the label
\* and arguments of the call that follows them, and whether the caller drops
\* the index that call returns (invoke does).
NoPending == [static_instructions |-> {}, name |-> "", args |-> <<>>,
              discard |-> FALSE, plugin |-> ""]

Dispatched(m, next) == [vm |-> m, next |-> next, pending |-> NoPending]

\* RwLock::read and RwLock::write on the plugin manager, by the one thread
\* there is: a guard that another guard excludes never comes.  writes
\* counts the write guards acquired.
lock(m, kind) ==
    LET held == m.plugin_manager
    IN  IF held.writer \/ (kind = "write" /\ held.readers > 0)
        THEN Panic(m, "blocked on the plugin manager", kind)
        ELSE IF kind = "write"
        THEN [m EXCEPT !.plugin_manager.writer = TRUE,
                       !.plugin_manager.writes = @ + 1]
        ELSE [m EXCEPT !.plugin_manager.readers = @ + 1]

\* PluginManager::loaded_label and the function that call_function runs: the
\* one of the registered plugin that provides the name.
call_function(m, name) ==
    LET providers == {p \in m.plugin_manager.plugins : name \in DOMAIN Plugins[p]}
    IN  IF providers = {}
        THEN [found |-> FALSE, natives |-> <<>>, result |-> Empty]
        ELSE [found |-> TRUE] @@ Plugins[CHOOSE p \in providers : TRUE][name]

\* call with the arguments pushed in the order of the vector.
call_in_order(m, asm_location, args) ==
    LET pushed == [m EXCEPT !.stack = @ \o args]
    IN  CASE asm_location.k = "ByteIndex" ->
               Dispatched([pushed EXCEPT !.counter_stack = Append(@, 0)],
                          Some(asm_location.i))
          [] asm_location.k = "InstructionDiff" ->
               Dispatched(Panic(pushed, "Illegal for calling functions", ""), None)
          [] asm_location.k = "Label" ->
               LET read == lock(pushed, "read")
                   dropped == [read EXCEPT !.plugin_manager.readers = @ - 1]
               IN  IF read.status.t /= "ok" THEN Dispatched(read, None)
                   ELSE IF call_function(read, asm_location.l).found
                   THEN [Dispatched(read, None) EXCEPT
                             !.pending.plugin = asm_location.l]
                   ELSE IF asm_location.l \in DOMAIN m.label_to_instruction
                   THEN Dispatched([dropped EXCEPT !.counter_stack = Append(@, 0)],
                                   Some(m.label_to_instruction[asm_location.l]))
                   ELSE Dispatched(Panic(dropped, "no entry for label",
                                         asm_location.l), None)

\* call with the label index consulted before the plugins.
call_label_first(m, asm_location, args) ==
    LET pushed == [m EXCEPT !.stack = @ \o Reverse(args)]
    IN  CASE asm_location.k = "ByteIndex" ->
               Dispatched([pushed EXCEPT !.counter_stack = Append(@, 0)],
                          Some(asm_location.i))
          [] asm_location.k = "InstructionDiff" ->
               Dispatched(Panic(pushed, "Illegal for calling functions", ""), None)
          [] asm_location.k = "Label" ->
               LET read == lock(pushed, "read")
               IN  IF asm_location.l \in DOMAIN m.label_to_instruction
                   THEN Dispatched([pushed EXCEPT !.counter_stack = Append(@, 0)],
                                   Some(m.label_to_instruction[asm_location.l]))
                   ELSE IF read.status.t /= "ok" THEN Dispatched(read, None)
                   ELSE IF call_function(read, asm_location.l).found
                   THEN [Dispatched(read, None) EXCEPT
                             !.pending.plugin = asm_location.l]
                   ELSE Dispatched(Panic(pushed, "no entry for label",
                                         asm_location.l), None)

call(m, asm_location, args) ==
    LET pushed == [m EXCEPT !.stack = @ \o Reverse(args)]
    IN  CASE asm_location.k = "ByteIndex" ->
               Dispatched([pushed EXCEPT !.counter_stack = Append(@, 0)],
                          Some(asm_location.i))
          [] asm_location.k = "InstructionDiff" ->
               Dispatched(Panic(pushed, "Illegal for calling functions", ""), None)
          [] asm_location.k = "Label" ->
               LET read == lock(pushed, "read")
                   dropped == [read EXCEPT !.plugin_manager.readers = @ - 1]
               IN  IF read.status.t /= "ok" THEN Dispatched(read, None)
                   ELSE IF call_function(read, asm_location.l).found
                   THEN [Dispatched(read, None) EXCEPT
                             !.pending.plugin = asm_location.l]
                   ELSE IF asm_location.l \in DOMAIN m.label_to_instruction
                   THEN Dispatched([dropped EXCEPT !.counter_stack = Append(@, 0)],
                                   Some(m.label_to_instruction[asm_location.l]))
                   ELSE Dispatched(Panic(dropped, "no entry for label",
                                         asm_location.l), None)

anonymous_function_label(m) ==
    "<anonymous function " \o ToString(m.next_anonymous_function) \o ">"

\* The key under which @save_scope and @load_scope file a value: its hash.
hash(v) == ToString(v)

\* Value::into_reference: the value moves into a new cell, and the handle to
\* the cell is pushed.
into_reference(m, target) ==
    push(alloc(m, target), Reference(Len(m.heap) + 1))

\* A put that inserts into a copy of the dictionary.
dictionary_unchanged(dict, message, args) == dict

\* The dictionary after a message: only a well-formed put changes it.
dictionary_after(dict, message, args) ==
    IF message = "put" /\ Len(args) >= 2 /\ args[1].t = "Str"
    THEN Dictionary((args[1].s :> args[2]) @@ dict.d)
    ELSE dict

RECURSIVE native_method(_, _, _)
RECURSIVE send_message(_, _, _, _)
RECURSIVE send_reference(_, _, _, _, _)

\* The built-in messages of a dictionary.
send_dictionary(m, dict, message, args) ==
    CASE message \in {"get", "put"} /\ args = <<>> ->
           Panic(m, "removal index out of bounds", message)
      [] message \in {"get", "put"} /\ args /= <<>> /\ args[1].t /= "Str" ->
           Panic(m, "first value should be a string", message)
      [] message = "get" /\ args /= <<>> /\ args[1].t = "Str" ->
           IF args[1].s \in DOMAIN dict.d
           THEN push(m, dict.d[args[1].s])
           ELSE Panic(m, "not in dictionary", args[1].s)
      [] message = "put" /\ args /= <<>> /\ args[1].t = "Str" ->
           IF Len(args) < 2 THEN Panic(m, "removal index out of bounds", message)
           ELSE push(m, Empty)
      [] message \in {"contains", "remove", "len"} ->
           Panic(m, "not yet implemented", message)
      [] OTHER -> Panic(m, "is not a valid message for dictionary", message)

\* borrow_mut on the cell, then send_message to what the cell holds.  The
\* cells in borrowed are mutably borrowed by the callers; a dictionary that
\* was changed in place is what the cell holds afterwards.
send_reference(m, c, borrowed, message, args) ==
    LET inner == m.heap[c]
        sent == send_message(m, inner, message, args)
    IN  IF c \in borrowed
        THEN Dispatched(Panic(m, "already borrowed", ""), None)
        ELSE IF inner.t = "Reference"
        THEN send_reference(m, inner.c, borrowed \cup {c}, message, args)
        ELSE IF inner.t = "Dictionary" /\ sent.vm.status.t = "ok"
                /\ ~(RECEIVE_MESSAGE \in DOMAIN inner.d
                     /\ inner.d[RECEIVE_MESSAGE] /= Native)
        THEN [sent EXCEPT !.vm.heap[c] = dictionary_after(inner, message, args)]
        ELSE sent

\* The "write" arm, without the streams it writes to.
native_write(m, args) ==
    IF args = <<>> THEN Panic(m, "removal index out of bounds", "write")
    ELSE IF args[1].t /= "UInteger"
    THEN Panic(m, "File descriptors should only be unsigned ints", "")
    ELSE IF args[1].u \notin {1, 2}
    THEN Panic(m, "is not a valid file descriptor for writing", "")
    ELSE IF Len(args) < 2 THEN Panic(m, "removal index out of bounds", "write")
    ELSE IF args[2].t /= "Str"
    THEN Panic(m, "Can not only pass strings to the write function", "")
    ELSE push(m, Empty)

\* The "@load_scope" arm looking the scope up under the variant of the key.
native_load_scope_unhashed(m, args) ==
    IF args = <<>> THEN Panic(m, "removal index out of bounds", "@load_scope")
    ELSE load_scope(m, args[1].t)

native_load_scope(m, args) ==
    IF args = <<>> THEN Panic(m, "removal index out of bounds", "@load_scope")
    ELSE load_scope(m, hash(args[1]))

native_save_scope(m, args) ==
    IF args = <<>> THEN Panic(m, "removal index out of bounds", "@save_scope")
    ELSE save_current_scope(m, hash(args[1]))

\* The "invoke" arm: target, message and arguments are taken from the end
\* of args, and what send_message returns is dropped.
native_invoke(m, args) ==
    LET n == Len(args)
    IN  IF n < 2 THEN Dispatched(Panic(m, "unwrap on None", "invoke"), None)
        ELSE IF args[n - 1].t /= "Str"
        THEN Dispatched(Panic(m, "String expected for message", ""), None)
        ELSE IF n < 3 THEN Dispatched(Panic(m, "unwrap on None", "invoke"), None)
        ELSE IF args[n - 2].t /= "Array"
        THEN Dispatched(Panic(m, "Expected a value of type array", ""), None)
        ELSE LET sent == send_message(m, args[n], args[n - 1].s, args[n - 2].a)
             IN  [sent EXCEPT !.next = None, !.pending.discard = TRUE]

\* The arm "dynamic_call" with the write guard in place of the read guard.
native_dynamic_call_exclusive(m, args) ==
    LET plugin_manager_guard == lock(m, "write")
    IN  IF args = <<>>
        THEN Dispatched(Panic(m, "removal index out of bounds", "dynamic_call"), None)
        ELSE IF args[1].t /= "Str"
        THEN Dispatched(Panic(m, "Expected a value of type String", ""), None)
        ELSE IF plugin_manager_guard.status.t /= "ok"
        THEN Dispatched(plugin_manager_guard, None)
        ELSE IF ~call_function(plugin_manager_guard, args[1].s).found
        THEN Dispatched(Panic(plugin_manager_guard, "failed!", args[1].s), None)
        ELSE [Dispatched(plugin_manager_guard, None) EXCEPT
                  !.pending.plugin = args[1].s]

\* The arm "dynamic_call": the read guard is taken and the function of the
\* name is called; it runs, and what it returns is pushed, in PluginStep.
native_dynamic_call(m, args) ==
    LET plugin_manager_guard == lock(m, "read")
    IN  IF args = <<>>
        THEN Dispatched(Panic(m, "removal index out of bounds", "dynamic_call"), None)
        ELSE IF args[1].t /= "Str"
        THEN Dispatched(Panic(m, "Expected a value of type String", ""), None)
        ELSE IF plugin_manager_guard.status.t /= "ok"
        THEN Dispatched(plugin_manager_guard, None)
        ELSE IF ~call_function(plugin_manager_guard, args[1].s).found
        THEN Dispatched(Panic(plugin_manager_guard, "failed!", args[1].s), None)
        ELSE [Dispatched(plugin_manager_guard, None) EXCEPT
                  !.pending.plugin = args[1].s]

native_method(m, message, args) ==
    CASE message = "print" ->
           Dispatched(IF args = <<>>
                      THEN Panic(m, "removal index out of bounds", message)
                      ELSE push(m, Empty), None)
      [] message = "write" -> Dispatched(native_write(m, args), None)
      [] message = "invoke" -> native_invoke(m, args)
      [] message = "copy" ->
           Dispatched(IF args = <<>>
                      THEN Panic(m, "removal index out of bounds", message)
                      ELSE push(push(m, args[1]), args[1]), None)
      [] message = "@load_scope" -> Dispatched(native_load_scope(m, args), None)
      [] message = "@save_scope" -> Dispatched(native_save_scope(m, args), None)
      [] message = "@push_scope" -> Dispatched(push_scope(m), None)
      [] message = "@pop_scope" -> Dispatched(pop_scope(m), None)
      [] message = "@global_scope" -> Dispatched(global_scope(m), None)
      [] message = "@back_scope" -> Dispatched(back_scope(m), None)
      [] message = "@print_stack" -> Dispatched(m, None)
      [] message = "@call" ->
           IF args = <<>>
           THEN Dispatched(Panic(m, "removal index out of bounds", message), None)
           ELSE IF args[1].t = "Str"
           THEN native_method(m, args[1].s, Tail(args))
           ELSE Dispatched(Panic(m, "Must have a string as the first argument", ""),
                           None)
      [] message = "ref" ->
           Dispatched(IF args = <<>>
                      THEN Panic(m, "removal index out of bounds", message)
                      ELSE into_reference(m, args[1]), None)
      [] message = "dynamic_call" -> native_dynamic_call(m, args)
      [] OTHER -> Dispatched(Panic(m, "is not a native method", message), None)

\* The rest of send_message on a Bytecode value once load has returned.
call_loaded(m, name, args) ==
    call(save_current_scope(m, name), AsmLabel(name), args)

\* send_bytecode with a counter that is read but not advanced.
send_bytecode_same_label(m, bytecode, args) ==
    LET name == anonymous_function_label(m)
        loaded == load_append(m, <<Label(name)>> \o decode(bytecode), 1,
                              Len(m.instructions), {})
    IN  IF loaded.vm.status.t /= "ok" THEN Dispatched(loaded.vm, None)
        ELSE IF loaded.static_instructions /= {}
        THEN [vm |-> loaded.vm, next |-> None,
              pending |-> [static_instructions |-> loaded.static_instructions,
                           name |-> name, args |-> args, discard |-> FALSE,
                           plugin |-> ""]]
        ELSE call_loaded(loaded.vm, name, args)

send_bytecode(m, bytecode, args) ==
    LET name == anonymous_function_label(m)
        counted == [m EXCEPT !.next_anonymous_function = @ + 1]
        loaded == load_append(counted, <<Label(name)>> \o decode(bytecode), 1,
                              Len(m.instructions), {})
    IN  IF loaded.vm.status.t /= "ok" THEN Dispatched(loaded.vm, None)
        ELSE IF loaded.static_instructions /= {}
        THEN [vm |-> loaded.vm, next |-> None,
              pending |-> [static_instructions |-> loaded.static_instructions,
                           name |-> name, args |-> args, discard |-> FALSE,
                           plugin |-> ""]]
        ELSE call_loaded(loaded.vm, name, args)

\* send_message with every RECEIVE_MESSAGE entry taking the message over,
\* Native too.
send_message_any_receiver(m, target, message, args) ==
    CASE target.t \in {"Empty", "Byte", "Float", "Integer", "UInteger", "Str", "Array"} ->
           Dispatched(m, None)
      [] target.t = "Bytecode" ->
           IF message /= CALL
           THEN Dispatched(Panic(m, "Can only call bytecode objects", ""), None)
           ELSE send_bytecode(m, target.b, args)
      [] target.t = "Function" ->
           IF message /= CALL
           THEN Dispatched(Panic(m, "Can only call function objects", ""), None)
           ELSE call(m, target.f, args)
      [] target.t = "Native" -> native_method(m, message, args)
      [] target.t = "Dictionary" ->
           IF RECEIVE_MESSAGE \in DOMAIN target.d
           THEN send_message(m, target.d[RECEIVE_MESSAGE], CALL, args)
           ELSE Dispatched(send_dictionary(m, target, message, args), None)
      [] target.t = "Reference" -> send_reference(m, target.c, {}, message, args)

send_message(m, target, message, args) ==
    CASE target.t \in {"Empty", "Byte", "Float", "Integer", "UInteger", "Str", "Array"} ->
           Dispatched(m, None)
      [] target.t = "Bytecode" ->
           IF message /= CALL
           THEN Dispatched(Panic(m, "Can only call bytecode objects", ""), None)
           ELSE send_bytecode(m, target.b, args)
      [] target.t = "Function" ->
           IF message /= CALL
           THEN Dispatched(Panic(m, "Can only call function objects", ""), None)
           ELSE call(m, target.f, args)
      [] target.t = "Native" -> native_method(m, message, args)
      [] target.t = "Dictionary" ->
           IF RECEIVE_MESSAGE \in DOMAIN target.d
              /\ target.d[RECEIVE_MESSAGE] /= Native
           THEN send_message(m, target.d[RECEIVE_MESSAGE], CALL, args)
           ELSE Dispatched(send_dictionary(m, target, message, args), None)
      [] target.t = "Reference" -> send_reference(m, target.c, {}, message, args)

\* -------------------------------------------------------------- interpreter
Interpreted(m, next_instruction) ==
    [vm |-> m, next |-> next_instruction, pending |-> NoPending]

interpret_pop(m, instruction_pointer) ==
    IF m.stack = <<>>
    THEN Interpreted(Panic(m, "unwrap on None", "Pop"), instruction_pointer + 1)
    ELSE Interpreted([m EXCEPT !.stack = Front(@)], instruction_pointer + 1)

\* interpret_return resuming at the caller's own index.
interpret_return_same_pc(m, instruction_pointer) ==
    LET popped == IF m.counter_stack = <<>> THEN <<>> ELSE Front(m.counter_stack)
        next == IF popped = <<>> THEN 0 ELSE Last(popped)
    IN  Interpreted([m EXCEPT !.counter_stack = popped], next)

interpret_return(m, instruction_pointer) ==
    LET popped == IF m.counter_stack = <<>> THEN <<>> ELSE Front(m.counter_stack)
        next == IF popped = <<>> THEN 0
                ELSE IF Last(popped) /= 0 THEN Last(popped) + 1 ELSE 0
    IN  Interpreted([m EXCEPT !.counter_stack = popped], next)

interpret_get_symbol(m, string, instruction_pointer) ==
    IF string \in DOMAIN m.label_to_instruction
    THEN Interpreted(push(m, Function(AsmLabel(string))), instruction_pointer + 1)
    ELSE Interpreted(fault(m, MissingSymbol(string)), instruction_pointer + 1)

interpret_send_message(m, instruction_pointer) ==
    LET n == Len(m.stack)
        popped == [m EXCEPT !.stack = SubSeq(@, 1, n - 3)]
        sent == send_message(popped, m.stack[n], m.stack[n - 1].s, m.stack[n - 2].a)
    IN  CASE n = 0 ->
               Interpreted(Panic(m, "There should be a target value on the stack", ""),
                           instruction_pointer + 1)
          [] n = 1 \/ (n >= 2 /\ m.stack[n - 1].t /= "Str") ->
               Interpreted(Panic(m, "Message must exist and must be of type String", ""),
                           instruction_pointer + 1)
          [] n = 2 \/ (n >= 3 /\ m.stack[n - 2].t /= "Array") ->
               Interpreted(Panic(m, "Arguments must be an array of values", ""),
                           instruction_pointer + 1)
          [] OTHER ->
               [vm |-> sent.vm,
                next |-> IF sent.next.some THEN sent.next.pc
                         ELSE instruction_pointer + 1,
                pending |-> sent.pending]

interpret_native_method(m, msg, count, instruction_pointer) ==
    LET n == Len(m.stack)
        args == [i \in 1..count |-> m.stack[n - i + 1]]
        popped == [m EXCEPT !.stack = SubSeq(@, 1, n - count)]
        sent == send_message(popped, Native, msg, args)
    IN  IF n < count
        THEN Interpreted(Panic(m, "Expected a value on the stack for native method call", msg),
                         instruction_pointer + 1)
        ELSE [vm |-> sent.vm,
              next |-> IF sent.next.some THEN sent.next.pc
                       ELSE instruction_pointer + 1,
              pending |-> sent.pending]

interpret_set_var(m, v, instruction_pointer) ==
    IF m.stack = <<>>
    THEN Interpreted(Panic(m, "value expected from stack to save to", ""),
                     instruction_pointer + 1)
    ELSE Interpreted(set_var([m EXCEPT !.stack = Front(@)], v, Last(m.stack)),
                     instruction_pointer + 1)

interpret_get_var(m, v, instruction_pointer) ==
    IF get_var(m, v) = 0
    THEN Interpreted(Panic(m, "no var set", ""), instruction_pointer + 1)
    ELSE Interpreted(push(m, Reference(get_var(m, v))), instruction_pointer + 1)

interpret_into_reference(m, instruction_pointer) ==
    LET sent == send_message([m EXCEPT !.stack = Front(@)], Native, "ref",
                             <<Last(m.stack)>>)
    IN  IF m.stack = <<>>
        THEN Interpreted(Panic(m, "There should be a target value on the stack", ""),
                         instruction_pointer + 1)
        ELSE [vm |-> sent.vm,
              next |-> IF sent.next.some THEN sent.next.pc
                       ELSE instruction_pointer + 1,
              pending |-> sent.pending]

\* The arithmetic module on the two numeric variants of this model: the
\* result of sub is right less left, and a result has the variant of left.
numeric(v) == IF v.t = "Integer" THEN v.i ELSE v.u

sub(left, right) ==
    LET n == numeric(right) - numeric(left)
    IN  IF left.t = "UInteger" THEN UInteger(n) ELSE Integer(n)

add(left, right) ==
    LET n == numeric(left) + numeric(right)
    IN  IF left.t = "UInteger" THEN UInteger(n) ELSE Integer(n)

\* The arithmetic arm with the second value popped handed over as left.
interpret_arithmetic_swapped(m, asm, instruction_pointer) ==
    LET n == Len(m.stack)
        right == m.stack[n]
        left == m.stack[n - 1]
        popped == [m EXCEPT !.stack = SubSeq(@, 1, n - 2)]
    IN  IF n < 2
        THEN Interpreted(Panic(m, "couldn't pop", ""), instruction_pointer + 1)
        ELSE IF {left.t, right.t} \subseteq {"Integer", "UInteger"}
        THEN Interpreted(push(popped, IF asm.op = "Subtract" THEN sub(left, right)
                                      ELSE add(left, right)),
                         instruction_pointer + 1)
        ELSE Interpreted(Panic(popped, "arithmetic on other variants", asm.op),
                         instruction_pointer + 1)

interpret_arithmetic(m, asm, instruction_pointer) ==
    LET n == Len(m.stack)
        left == m.stack[n]
        right == m.stack[n - 1]
        popped == [m EXCEPT !.stack = SubSeq(@, 1, n - 2)]
    IN  IF n < 2
        THEN Interpreted(Panic(m, "couldn't pop", ""), instruction_pointer + 1)
        ELSE IF {left.t, right.t} \subseteq {"Integer", "UInteger"}
        THEN Interpreted(push(popped, IF asm.op = "Subtract" THEN sub(left, right)
                                      ELSE add(left, right)),
                         instruction_pointer + 1)
        ELSE Interpreted(Panic(popped, "arithmetic on other variants", asm.op),
                         instruction_pointer + 1)

interpret_deref(m, instruction_pointer) ==
    IF m.stack = <<>>
    THEN Interpreted(Panic(m, "unwrap on None", "Deref"), instruction_pointer + 1)
    ELSE IF Last(m.stack).t /= "Reference"
    THEN Interpreted(Panic([m EXCEPT !.stack = Front(@)],
                           "Can only deref pointers", ""),
                     instruction_pointer + 1)
    ELSE Interpreted(push([m EXCEPT !.stack = Front(@)], m.heap[Last(m.stack).c]),
                     instruction_pointer + 1)

\* SetRef taking the value from the top of the stack and the pointer from
\* beneath it.
interpret_set_ref_value_first(m, instruction_pointer) ==
    LET n == Len(m.stack)
        value == m.stack[n]
        ptr == m.stack[n - 1]
        popped == [m EXCEPT !.stack = SubSeq(@, 1, n - 2)]
    IN  IF n < 2
        THEN Interpreted(Panic(m, "unwrap on None", "SetRef"), instruction_pointer + 1)
        ELSE IF ptr.t /= "Reference"
        THEN Interpreted(Panic(popped, "Invalid value for set ref", ""),
                         instruction_pointer + 1)
        ELSE Interpreted([popped EXCEPT !.heap[ptr.c] = value],
                         instruction_pointer + 1)

interpret_set_ref(m, instruction_pointer) ==
    LET n == Len(m.stack)
        ptr == m.stack[n]
        value == m.stack[n - 1]
        popped == [m EXCEPT !.stack = SubSeq(@, 1, n - 2)]
    IN  IF n < 2
        THEN Interpreted(Panic(m, "unwrap on None", "SetRef"), instruction_pointer + 1)
        ELSE IF ptr.t /= "Reference"
        THEN Interpreted(Panic(popped, "Invalid value for set ref", ""),
                         instruction_pointer + 1)
        ELSE Interpreted([popped EXCEPT !.heap[ptr.c] = value],
                         instruction_pointer + 1)

\* The index that Goto and CondGoto take from their location.  The
\* subtraction is one of unsigned integers; no assembly here jumps below
\* index 0.
goto_location(m, location, instruction_pointer) ==
    CASE location.k = "ByteIndex" -> Interpreted(m, location.i)
      [] location.k = "InstructionDiff" ->
           IF location.d > 0
           THEN Interpreted(m, instruction_pointer + location.d)
           ELSE Interpreted(m, instruction_pointer - (-location.d))
      [] location.k = "Label" ->
           IF location.l \in DOMAIN m.label_to_instruction
           THEN Interpreted(m, m.label_to_instruction[location.l])
           ELSE Interpreted(Panic(m, "No instruction found for label", location.l),
                            instruction_pointer + 1)

\* The handle that names no cell.
is_null_ptr(r) == r.c = 0

\* interpret_cond_goto with the truth of Boolify: a non-zero Integer or
\* UInteger branches too.
interpret_cond_goto_truthy(m, location, instruction_pointer) ==
    IF m.stack = <<>>
    THEN Interpreted(Panic(m, "unwrap on None", "CondGoto"), instruction_pointer + 1)
    ELSE LET pop == Last(m.stack)
             popped == [m EXCEPT !.stack = Front(@)]
             cond == CASE pop.t = "Byte" -> pop.b /= 0
                       [] pop.t = "Integer" -> pop.i /= 0
                       [] pop.t = "UInteger" -> pop.u /= 0
                       [] pop.t = "Reference" -> ~is_null_ptr(pop)
                       [] OTHER -> FALSE
         IN  IF cond THEN goto_location(popped, location, instruction_pointer)
             ELSE Interpreted(popped, instruction_pointer + 1)

interpret_cond_goto(m, location, instruction_pointer) ==
    IF m.stack = <<>>
    THEN Interpreted(Panic(m, "unwrap on None", "CondGoto"), instruction_pointer + 1)
    ELSE LET pop == Last(m.stack)
             popped == [m EXCEPT !.stack = Front(@)]
             cond == CASE pop.t = "Byte" -> pop.b /= 0
                       [] pop.t = "Reference" -> ~is_null_ptr(pop)
                       [] OTHER -> FALSE
         IN  IF cond THEN goto_location(popped, location, instruction_pointer)
             ELSE Interpreted(popped, instruction_pointer + 1)

\* The loop of Pack: each value popped goes to the front of the vector.
RECURSIVE pack_loop(_, _, _)
pack_loop(m, len, vector) ==
    IF len = 0 THEN [vm |-> m, vector |-> vector]
    ELSE IF m.stack = <<>>
    THEN [vm |-> Panic(m, "Tried to pop more values than available", ""),
          vector |-> vector]
    ELSE pack_loop([m EXCEPT !.stack = Front(@)], len - 1,
                   <<Last(m.stack)>> \o vector)

\* interpret_pack with each value popped put at the back of the vector.
interpret_pack_push_back(m, len, instruction_pointer) ==
    LET packed == pack_loop(m, len, <<>>)
    IN  Interpreted(IF packed.vm.status.t /= "ok" THEN packed.vm
                    ELSE push(packed.vm, Array(Reverse(packed.vector))),
                    instruction_pointer + 1)

interpret_pack(m, len, instruction_pointer) ==
    LET packed == pack_loop(m, len, <<>>)
    IN  Interpreted(IF packed.vm.status.t /= "ok" THEN packed.vm
                    ELSE push(packed.vm, Array(packed.vector)),
                    instruction_pointer + 1)

interpret_instruction(m, bytecode, instruction_pointer) ==
    CASE bytecode.op \in {"Label", "PublicLabel", "Nop"} ->
           Interpreted(m, instruction_pointer + 1)
      [] bytecode.op = "Pop" -> interpret_pop(m, instruction_pointer)
      [] bytecode.op = "Return" -> interpret_return(m, instruction_pointer)
      [] bytecode.op = "Halt" ->
           Interpreted([m EXCEPT !.cont = FALSE], instruction_pointer + 1)
      [] bytecode.op = "Goto" ->
           goto_location(m, bytecode.location, instruction_pointer)
      [] bytecode.op = "CondGoto" ->
           interpret_cond_goto(m, bytecode.location, instruction_pointer)
      [] bytecode.op = "Pack" ->
           interpret_pack(m, bytecode.len, instruction_pointer)
      [] bytecode.op = "Push" ->
           Interpreted(push(m, bytecode.v), instruction_pointer + 1)
      [] bytecode.op = "GetSymbol" ->
           interpret_get_symbol(m, bytecode.s, instruction_pointer)
      [] bytecode.op = "SendMessage" ->
           interpret_send_message(m, instruction_pointer)
      [] bytecode.op = "NativeMethod" ->
           interpret_native_method(m, bytecode.name, bytecode.n, instruction_pointer)
      [] bytecode.op = "SetVar" -> interpret_set_var(m, bytecode.v, instruction_pointer)
      [] bytecode.op = "GetVar" -> interpret_get_var(m, bytecode.v, instruction_pointer)
      [] bytecode.op = "ClearVar" -> Interpreted(m, instruction_pointer + 1)
      [] bytecode.op = "IntoReference" ->
           interpret_into_reference(m, instruction_pointer)
      [] bytecode.op \in {"Subtract", "Add"} ->
           interpret_arithmetic(m, bytecode, instruction_pointer)
      [] bytecode.op = "Deref" -> interpret_deref(m, instruction_pointer)
      [] bytecode.op = "SetRef" -> interpret_set_ref(m, instruction_pointer)
      [] OTHER ->
           Interpreted(Panic(m, "Invalid instruction", bytecode.op),
                       instruction_pointer + 1)

\* The variable table of the current scope: what each slot holds.
table(m) == [v \in DOMAIN Last(m.scopes) |-> m.heap[Last(m.scopes)[v]]]

\* ---------------------------------------------------------------- run loop
program_counter(m) ==
    IF m.counter_stack = <<>> THEN 0 ELSE Last(m.counter_stack)

set_program_counter(m, pc) ==
    [m EXCEPT !.counter_stack =
                  (IF @ = <<>> THEN <<>> ELSE Front(@)) \o <<pc>>]

\* inner_loop with index 0 in the range.
inner_loop_from_zero(m) ==
    m.cont /\ program_counter(m) \in 0..(Len(m.instructions) - 1)

\* The guard of the inner while loop of run_from_index.
inner_loop(m) ==
    m.cont /\ program_counter(m) \in 1..(Len(m.instructions) - 1)

\* The first two statements of run_from_index.
enter_run(m, index) ==
    [m EXCEPT !.cont = TRUE, !.counter_stack = Append(@, index)]

\* end_fault without memory.replace_stack.
end_fault_keeps_stack(m, handle) ==
    [m EXCEPT !.counter_stack = handle.stored_pc]

end_fault(m, handle) ==
    [m EXCEPT !.counter_stack = handle.stored_pc, !.stack = handle.stored_stack]

\* leave_fault without kernel_mode = false.
leave_fault_stays_kernel(m) ==
    end_fault([m EXCEPT !.handler = NoHandle], m.handler)

\* leave_fault that sets the continue flag again.
leave_fault_continues(m) ==
    end_fault([m EXCEPT !.handler = NoHandle, !.kernel_mode = FALSE,
                        !.cont = TRUE], m.handler)

\* The Some(handle) arm at the outer loop's boundary.
leave_fault(m) ==
    end_fault([m EXCEPT !.handler = NoHandle, !.kernel_mode = FALSE], m.handler)

NoResult == [t |-> "None", code |-> 0, e |-> ""]

Ok(code) == [t |-> "Ok", code |-> code, e |-> ""]

Err(e) == [t |-> "Err", code |-> 0, e |-> e]

\* exit_code with a value of another type taken for a missing one.
exit_code_any_missing(m) ==
    IF m.stack = <<>> \/ Last(m.stack).t /= "UInteger" THEN Err("NoExitCode")
    ELSE Ok(Last(m.stack).u % U32)

\* The exit code popped after the outer loop.
exit_code(m) ==
    IF m.stack = <<>> THEN Err("NoExitCode")
    ELSE IF Last(m.stack).t = "UInteger" THEN Ok(Last(m.stack).u % U32)
    ELSE Err("ExitCodeInvalidType")

pop_exit_code(m) ==
    [m EXCEPT !.stack = IF @ = <<>> THEN @ ELSE Front(@)]

\* ----------------------------------------------------------------- control
\* An activation of run_from_index: by run ("run"), by load_static
\* ("load_static"), or by the static loop of load ("static"), which remembers
\* the static indices still to run and what load returns to.
RunFrame == [op |-> "run", rest |-> {}, then |-> "", start |-> 0,
             name |-> "", args |-> <<>>]

LoadStaticFrame == [op |-> "load_static", rest |-> {}, then |-> "", start |-> 0,
                    name |-> "", args |-> <<>>]

\* A function of a plugin runs: the native calls it has still to make, and
\* the index at which the instruction that called it is followed.
PluginFrame(m, name, next) ==
    [op |-> "plugin", rest |-> {}, then |-> "", start |-> next,
     name |-> name, args |-> call_function(m, name).natives]

StaticFrame(rest, then, start, name, args) ==
    [op |-> "static", rest |-> rest, then |-> then, start |-> start,
     name |-> name, args |-> args]

ApiLoad(op, asm) == [op |-> op, asm |-> asm, label |-> ""]

ApiRun(label) == [op |-> "run", asm |-> <<>>, label |-> label]

FaultTargets == {NoEntry, Native, Function(AsmLabel("handler"))}

FaultTables == [{"MissingSymbol", "DoubleFault"} -> FaultTargets]

\* The state after construction, the build of asm_version apart.
InitVM ==
    /\ instructions = <<Nop>>
    /\ label_to_instruction = EmptyMap
    /\ counter_stack = <<>>
    /\ cont = FALSE
    /\ stack = <<>>
    /\ scopes = <<EmptyMap>>
    /\ global_saved = <<>>
    /\ scope_dict = EmptyMap
    /\ heap = <<>>
    /\ plugin_manager = [plugins |-> {}, readers |-> 0, writer |-> FALSE,
                         writes |-> 0]
    /\ handler = NoHandle
    /\ kernel_mode = FALSE
    /\ fault_table \in FaultTables
    /\ next_anonymous_function = 0
    /\ ctl = <<>>
    /\ status = StatusOk
    /\ result = NoResult
    /\ api = ApiLoad("new", <<>>)
    /\ last_fault = NoHandle
    /\ calls = 0
    /\ run_base = <<>>
    /\ saved_tables = EmptyMap

Init ==
    /\ InitVM
    /\ magic = MagicIdle("release")
    /\ resolver = IdentifierResolver

Idle == ctl = <<>> /\ status.t = "ok"

\* load(asm): append, then the loop over the static instructions, which run
\* from the set in no fixed order.
Load(asm) ==
    /\ Idle
    /\ calls < MaxCalls
    /\ LET r == load_append(VM, asm, 1, Len(instructions), {})
       IN  IF r.vm.status.t /= "ok" \/ r.static_instructions = {}
           THEN Commit(r.vm) /\ ctl' = ctl
           ELSE \E s \in r.static_instructions :
                   /\ Commit(enter_run(r.vm, s))
                   /\ ctl' = <<StaticFrame(r.static_instructions \ {s}, "load", 0, "", <<>>)>>
    /\ api' = ApiLoad("load", asm)
    /\ calls' = calls + 1
    /\ last_fault' = NoHandle
    /\ UNCHANGED <<result, run_base, saved_tables, magic, resolver>>

\* load_static(asm): load, then the whole assembly runs in the global scope.
LoadStatic(asm) ==
    /\ Idle
    /\ calls < MaxCalls
    /\ LET start_index == Len(instructions)
           r == load_append(VM, asm, 1, start_index, {})
       IN  IF r.vm.status.t /= "ok"
           THEN Commit(r.vm) /\ ctl' = ctl
           ELSE IF r.static_instructions = {}
           THEN /\ Commit(enter_run(global_scope(r.vm), start_index))
                /\ ctl' = <<LoadStaticFrame>>
           ELSE \E s \in r.static_instructions :
                   /\ Commit(enter_run(r.vm, s))
                   /\ ctl' = <<StaticFrame(r.static_instructions \ {s},
                                           "load_static", start_index, "", <<>>)>>
    /\ api' = ApiLoad("load_static", asm)
    /\ calls' = calls + 1
    /\ last_fault' = NoHandle
    /\ UNCHANGED <<result, run_base, saved_tables, magic, resolver>>

\* run(start_label)
Run(start_label) ==
    /\ Idle
    /\ calls < MaxCalls
    /\ start_label \in DOMAIN label_to_instruction
    /\ Commit(enter_run(VM, label_to_instruction[start_label]))
    /\ ctl' = <<RunFrame>>
    /\ api' = ApiRun(start_label)
    /\ calls' = calls + 1
    /\ last_fault' = NoHandle
    /\ run_base' = counter_stack
    /\ UNCHANGED <<result, saved_tables, magic, resolver>>

\* with_plugin(plugin): the registration under the write guard.
WithPlugin(plugin) ==
    /\ Idle
    /\ calls < MaxCalls
    /\ LET write == lock(VM, "write")
       IN  Commit(IF write.status.t /= "ok" THEN write
                  ELSE [write EXCEPT !.plugin_manager.plugins = @ \cup {plugin},
                                     !.plugin_manager.writer = FALSE])
    /\ api' = [op |-> "with_plugin", asm |-> <<>>, label |-> plugin]
    /\ calls' = calls + 1
    /\ last_fault' = NoHandle
    /\ UNCHANGED <<ctl, result, run_base, saved_tables, magic, resolver>>

\* One iteration of the inner loop: fetch, interpret, set_program_counter.
Step ==
    /\ status.t = "ok"
    /\ ctl /= <<>>
    /\ Last(ctl).op /= "plugin"
    /\ inner_loop(VM)
    /\ LET pc == program_counter(VM)
           r == interpret_instruction(VM, InstrAt(pc), pc)
       IN  /\ Len(r.vm.stack) <= MaxStack
           /\ Len(r.vm.heap) <= MaxHeap
           /\ saved_tables' =
                  IF InstrAt(pc) = NativeMethod("@save_scope", 1)
                     /\ r.vm.status.t = "ok"
                  THEN (hash(Last(stack)) :> table(VM)) @@ saved_tables
                  ELSE saved_tables
           /\ r.vm.next_anonymous_function <= MaxAnon
           /\ IF r.vm.status.t /= "ok"
              THEN Commit(r.vm) /\ ctl' = ctl
              ELSE IF r.pending.plugin /= ""
              THEN /\ Commit(r.vm)
                   /\ ctl' = Append(ctl, PluginFrame(r.vm, r.pending.plugin, r.next))
              ELSE IF r.pending.static_instructions = {}
              THEN Commit(set_program_counter(r.vm, r.next)) /\ ctl' = ctl
              ELSE \E s \in r.pending.static_instructions :
                      /\ Commit(enter_run(r.vm, s))
                      /\ ctl' = Append(ctl, StaticFrame(r.pending.static_instructions \ {s},
                                                        IF r.pending.discard
                                                        THEN "invoke" ELSE "bytecode",
                                                        r.next, r.pending.name,
                                                        r.pending.args))
    /\ last_fault' = NoHandle
    /\ UNCHANGED <<result, api, calls, run_base, magic, resolver>>

\* The function of a plugin that runs makes its next native call through
\* the VM handle (DefaultVmHandle::native: the native method, then its
\* result popped for the plugin unless the name starts with "@"), or
\* returns: its caller, call or dynamic_call, pushes the result and drops
\* the read guard.  A native call that calls a function of a plugin in its
\* turn is over when that function has returned.
PluginStep ==
    /\ status.t = "ok"
    /\ ctl /= <<>>
    /\ Last(ctl).op = "plugin"
    /\ LET frame == Last(ctl)
           output(m, method) ==
               IF ~starts_with(method, "@") /\ m.stack /= <<>>
               THEN [m EXCEPT !.stack = Front(@)] ELSE m
           called == native_method(VM, Head(frame.args).method,
                                   Head(frame.args).values)
           returned == push([VM EXCEPT !.plugin_manager.readers = @ - 1],
                            call_function(VM, frame.name).result)
           caller == Last(Front(ctl))
       IN  IF frame.args /= <<>>
           THEN IF called.vm.status.t /= "ok"
                THEN Commit(called.vm) /\ ctl' = ctl
                ELSE IF called.pending.plugin /= ""
                THEN /\ Commit(called.vm)
                     /\ ctl' = Append(ctl, PluginFrame(called.vm,
                                                       called.pending.plugin, 0))
                ELSE /\ Commit(output(called.vm, Head(frame.args).method))
                     /\ ctl' = Front(ctl) \o <<[frame EXCEPT !.args = Tail(@)]>>
           ELSE IF caller.op = "plugin"
           THEN /\ Commit(output(returned, Head(caller.args).method))
                /\ ctl' = Front(Front(ctl)) \o <<[caller EXCEPT !.args = Tail(@)]>>
           ELSE /\ Commit(set_program_counter(returned, frame.start))
                /\ ctl' = Front(ctl)
    /\ UNCHANGED <<result, api, last_fault, calls, run_base, saved_tables,
                   magic, resolver>>

\* The inner loop has exited with a fault handle active.
EndFault ==
    /\ status.t = "ok"
    /\ ctl /= <<>>
    /\ Last(ctl).op /= "plugin"
    /\ ~inner_loop(VM)
    /\ handler /= NoHandle
    /\ Commit(leave_fault(VM))
    /\ last_fault' = handler
    /\ UNCHANGED <<ctl, result, api, calls, run_base, saved_tables, magic, resolver>>

\* What follows the return of a run made by the static loop of load.
static_return(m, frame) ==
    CASE frame.then = "load_static" ->
           [vm |-> enter_run(global_scope(m), frame.start), ctl |-> <<LoadStaticFrame>>]
      [] frame.then = "bytecode" ->
           LET called == call_loaded(m, frame.name, frame.args)
           IN  [vm |-> IF called.vm.status.t = "ok"
                       THEN set_program_counter(called.vm, called.next.pc)
                       ELSE called.vm,
                ctl |-> <<>>]
      [] frame.then = "invoke" ->
           LET called == call_loaded(m, frame.name, frame.args)
           IN  [vm |-> IF called.vm.status.t = "ok"
                       THEN set_program_counter(called.vm, frame.start)
                       ELSE called.vm,
                ctl |-> <<>>]
      [] OTHER -> [vm |-> m, ctl |-> <<>>]

\* The inner loop has exited with no handle: run_from_index pops the exit
\* code and returns to its caller.
RunExit ==
    /\ status.t = "ok"
    /\ ctl /= <<>>
    /\ Last(ctl).op /= "plugin"
    /\ ~inner_loop(VM)
    /\ handler = NoHandle
    /\ LET frame == Last(ctl)
           output == exit_code(VM)
           m == pop_exit_code(VM)
       IN  CASE frame.op = "run" ->
                  /\ Commit(m)
                  /\ ctl' = Front(ctl)
                  /\ result' = output
             [] frame.op = "load_static" ->
                  /\ IF output.t = "Err"
                     THEN Commit(Panic(m, "VM Error encountered", output.e))
                     ELSE IF output.code /= 0
                     THEN Commit(Panic(m, "VM Failed", ""))
                     ELSE Commit(back_scope(m))
                  /\ ctl' = Front(ctl)
                  /\ UNCHANGED result
             [] frame.op = "static" ->
                  /\ IF frame.rest /= {}
                     THEN \E s \in frame.rest :
                             /\ Commit(enter_run(m, s))
                             /\ ctl' = Front(ctl) \o
                                       <<[frame EXCEPT !.rest = @ \ {s}]>>
                     ELSE LET after == static_return(m, frame)
                          IN  Commit(after.vm) /\ ctl' = Front(ctl) \o after.ctl
                  /\ UNCHANGED result
    /\ UNCHANGED <<api, last_fault, calls, run_base, saved_tables, magic, resolver>>

Next ==
    \/ \E asm \in Assemblies : Load(asm)
    \/ \E asm \in StaticRegions : LoadStatic(asm)
    \/ \E start_label \in DOMAIN label_to_instruction : Run(start_label)
    \/ Step
    \/ EndFault
    \/ RunExit

Spec == Init /\ [][Next]_vars

\* ------------------------------------------------------------ asm_version
\* Version::to_magic_number, one iteration of its loop at a time, in a build
\* that checks arithmetic overflow ("debug") and in one that wraps
\* ("release"), and Version::verify_magic_number, which calls it.
MagicStart(caller, number) ==
    /\ magic.phase = "idle"
    /\ magic.calls < MaxMagicCalls
    /\ magic' = [magic EXCEPT !.phase = "loop", !.index = 0, !.sum = 0,
                              !.caller = caller, !.number = number,
                              !.calls = @ + 1]
    /\ UNCHANGED <<instructions, label_to_instruction, counter_stack, cont, stack,
                   scopes, global_saved, scope_dict, heap, plugin_manager, handler,
                   kernel_mode, fault_table, next_anonymous_function, ctl, status, result,
                   api, last_fault, calls, run_base, saved_tables, resolver>>

MagicIteration ==
    /\ magic.phase = "loop"
    /\ magic.index < Len(version_string_full)
    /\ LET step == magic_iteration(magic.sum, magic.index)
       IN  magic' = IF step.overflow /\ magic.build = "debug"
                    THEN [magic EXCEPT !.phase = "panic"]
                    ELSE [magic EXCEPT !.sum = step.sum, !.index = @ + 1]
    /\ UNCHANGED <<instructions, label_to_instruction, counter_stack, cont, stack,
                   scopes, global_saved, scope_dict, heap, plugin_manager, handler,
                   kernel_mode, fault_table, next_anonymous_function, ctl, status, result,
                   api, last_fault, calls, run_base, saved_tables, resolver>>

MagicReturn ==
    /\ magic.phase = "loop"
    /\ magic.index = Len(version_string_full)
    /\ magic' = [magic EXCEPT
                    !.phase = "idle",
                    !.returned = IF magic.caller = "to_magic_number"
                                 THEN [t |-> "u64", n |-> magic.sum]
                                 ELSE [t |-> "bool", b |-> magic.sum = magic.number]]
    /\ UNCHANGED <<instructions, label_to_instruction, counter_stack, cont, stack,
                   scopes, global_saved, scope_dict, heap, plugin_manager, handler,
                   kernel_mode, fault_table, next_anonymous_function, ctl, status, result,
                   api, last_fault, calls, run_base, saved_tables, resolver>>

InitMagic ==
    /\ InitVM
    /\ fault_table = [k \in {"MissingSymbol", "DoubleFault"} |-> NoEntry]
    /\ magic \in {MagicIdle("debug"), MagicIdle("release")}
    /\ resolver = IdentifierResolver

NextMagic ==
    \/ MagicStart("to_magic_number", 0)
    \/ \E number \in MagicNumbers : MagicStart("verify_magic_number", number)
    \/ MagicIteration
    \/ MagicReturn

SpecMagic ==
    /\ InitMagic
    /\ [][NextMagic]_vars

\* ------------------------------------------------------ identifier resolver
\* A call that takes &mut self and leaves the resolver as r.
ResolverCall(r) ==
    /\ resolver.calls < MaxResolverCalls
    /\ resolver' = [r EXCEPT !.calls = @ + 1]
    /\ UNCHANGED <<instructions, label_to_instruction, counter_stack, cont, stack,
                   scopes, global_saved, scope_dict, heap, plugin_manager, handler,
                   kernel_mode, fault_table, next_anonymous_function, ctl, status, result,
                   api, last_fault, calls, run_base, saved_tables, magic>>

\* resolve_path takes &self: the resolver is as before, what it returned
\* is recorded.
ResolvePath(path) ==
    /\ resolver' = [resolver EXCEPT !.returned = resolve_path(resolver, path)]
    /\ UNCHANGED <<instructions, label_to_instruction, counter_stack, cont, stack,
                   scopes, global_saved, scope_dict, heap, plugin_manager, handler,
                   kernel_mode, fault_table, next_anonymous_function, ctl, status, result,
                   api, last_fault, calls, run_base, saved_tables, magic>>

NextResolver ==
    \/ \E namespace \in {<<"n1">>, <<"n2">>} :
           ResolverCall(push_namespace(resolver, namespace))
    \/ ResolverCall(pop_namespace(resolver))
    \/ ResolverCall(use_namespace(resolver, <<"n1">>))
    \/ \E id \in {<<"object">>, <<"n1", "n2", "object">>} :
           ResolverCall(create_absolute_path(resolver, id))
    \/ \E path \in {<<"object">>, <<"n2", "object">>} : ResolvePath(path)

SpecResolver == Init /\ [][NextResolver]_vars

\* The same machine over the assemblies of variables, references and plugins.
NextObjects ==
    \/ \E asm \in ObjectAssemblies : Load(asm)
    \/ LoadStatic(ProgHandler)
    \/ \E plugin \in DOMAIN Plugins : WithPlugin(plugin)
    \/ PluginStep
    \/ \E start_label \in DOMAIN label_to_instruction : Run(start_label)
    \/ Step
    \/ EndFault
    \/ RunExit

SpecObjects == Init /\ [][NextObjects]_vars

\* ------------------------------------------------------------------ claims
Running == status.t = "ok" /\ ctl /= <<>>

\* The interpreter is about to fetch an instruction with this opcode.
AtInstr(op) ==
    /\ Running
    /\ inner_loop(VM)
    /\ InstrAt(program_counter(VM)).op = op

Bound(l) == l \in DOMAIN label_to_instruction

\* The indices of the instruction vector that hold a Label or PublicLabel of l.
LabelIndices(l) ==
    {i \in 0..(Len(instructions) - 1) : is_label(InstrAt(i)) /\ InstrAt(i).l = l}

Max(S) == CHOOSE x \in S : \A y \in S : y <= x

DropTop(s) == IF s = <<>> THEN s ELSE Front(s)

\* C1: GetSymbol(l) with l unbound and MissingSymbol bound to
\* Function(Label(L)), L bound: the call stack becomes [0, index(L)] and the
\* operand stack is empty, so that the handler's first instruction is the next
\* one fetched.
C1_FaultEntersHandler ==
    [][(/\ AtInstr("GetSymbol")
        /\ ~Bound(InstrAt(program_counter(VM)).s)
        /\ fault_table["MissingSymbol"] = Function(AsmLabel("handler"))
        /\ Bound("handler"))
       => (/\ counter_stack' = <<0, label_to_instruction["handler"]>>
           /\ stack' = <<>>)]_vars

C3_UserOrInFault ==
    status.t = "ok" => (kernel_mode <=> handler /= NoHandle)

\* The VM has been in a fault and is back in user state, and is in a fault.
C3_Witness ==
    /\ Running
    /\ kernel_mode
    /\ handler /= NoHandle
    /\ inner_loop(VM)
    /\ calls = 3

\* C4: scenario S6.  The entry executes GetSymbol on an unbound label and
\* MissingSymbol is bound to a label whose code pushes UInteger c and halts:
\* run returns success with exit code c.
C4_FaultRecoveryExitCode ==
    \A l \in DOMAIN label_to_instruction :
        (/\ Idle
         /\ api = ApiRun(l)
         /\ InstrAt(label_to_instruction[l] + 1).op = "GetSymbol"
         /\ ~Bound(InstrAt(label_to_instruction[l] + 1).s)
         /\ fault_table["MissingSymbol"] = Function(AsmLabel("handler"))
         /\ Bound("handler")
         /\ label_to_instruction["handler"] + 2 < Len(instructions)
         /\ InstrAt(label_to_instruction["handler"] + 1).op = "Push"
         /\ InstrAt(label_to_instruction["handler"] + 1).v.t = "UInteger"
         /\ InstrAt(label_to_instruction["handler"] + 2) = Halt)
        => result = Ok(InstrAt(label_to_instruction["handler"] + 1).v.u)

\* C5: a SendMessage CALL on Function(Label l) at pc p pushes one call-stack
\* entry and continues at index(l); a Return with a caller entry v below the
\* top pops the top and resumes at v + 1 (0 when v = 0), at the depth before
\* the call; a Return that leaves no entry sets the pc to 0 and ends the
\* loop; every other instruction that completes without a fault leaves the
\* entries below the top as they are, which keeps nested calls balanced.
C5_CallReturnRoundTrip ==
    [][LET n == Len(stack)
           d == Len(counter_stack)
       IN  /\ (/\ AtInstr("SendMessage")
               /\ n >= 3
               /\ stack[n].t = "Function"
               /\ stack[n].f.k = "Label"
               /\ Bound(stack[n].f.l)
               /\ stack[n - 1] = Str(CALL)
               /\ stack[n - 2].t = "Array")
              => counter_stack' =
                     Append(counter_stack, label_to_instruction[stack[n].f.l])
           /\ (AtInstr("Return") /\ d >= 2)
              => counter_stack' =
                     Append(SubSeq(counter_stack, 1, d - 2),
                            IF counter_stack[d - 1] /= 0
                            THEN counter_stack[d - 1] + 1 ELSE 0)
           /\ (AtInstr("Return") /\ d = 1)
              => (counter_stack' = <<0>> /\ ~inner_loop(VM)')
           /\ (/\ Running
               /\ inner_loop(VM)
               /\ InstrAt(program_counter(VM)).op \in
                      {"Label", "PublicLabel", "Nop", "Pop", "Push", "Halt"}
               /\ status'.t = "ok")
              => (Len(counter_stack') = d /\ Front(counter_stack') = Front(counter_stack))
      ]_vars

\* A nested call has returned to its caller's caller: the run of callmain is
\* back at depth 1, right after its SendMessage, holding g's result.
C5_Witness ==
    /\ Running
    /\ Bound("callmain")
    /\ counter_stack = <<label_to_instruction["callmain"] + 5>>
    /\ InstrAt(label_to_instruction["callmain"] + 4) = SendMessage
    /\ stack = <<UInteger(1)>>

DuplicateIn(asm, i) ==
    /\ is_label(asm[i])
    /\ ~starts_with(asm[i].l, "@@")
    /\ \/ Bound(asm[i].l)
       \/ \E j \in 1..(i - 1) : is_label(asm[j]) /\ asm[j].l = asm[i].l

HostLoads == calls' = calls + 1 /\ api'.op \in {"load", "load_static"}

\* C6: every bound label that does not begin with "@@" is the label of
\* exactly one instruction, the one at the index it is bound to; and a load
\* of an assembly with a Label or PublicLabel that is already bound, or bound
\* earlier in the same assembly, fails with the duplicate-label panic.
C6_LabelUniqueness ==
    /\ [](\A l \in DOMAIN label_to_instruction :
            ~starts_with(l, "@@") => LabelIndices(l) = {label_to_instruction[l]})
    /\ [][(HostLoads /\ \E i \in 1..Len(api'.asm) : DuplicateIn(api'.asm, i))
          => (status'.t = "panic" /\ status'.why = "label already registered")]_vars

\* A load has failed on a duplicate label, after another one went through.
C6_Witness ==
    /\ status.t = "panic"
    /\ status.why = "label already registered"
    /\ status.arg = "handler"
    /\ Bound("handler")
    /\ Len(instructions) > 4

\* C7: a label beginning with "@@" is bound to the index of the last
\* instruction that is a Label or PublicLabel of it, and the duplicate-label
\* panic never names such a label.
C7_RebindableLabels ==
    /\ \A l \in DOMAIN label_to_instruction :
          starts_with(l, "@@") => label_to_instruction[l] = Max(LabelIndices(l))
    /\ (status.t = "panic" /\ status.why = "label already registered")
          => ~starts_with(status.arg, "@@")

\* "@@tmp" has been bound four times, by two loads.
C7_Witness ==
    /\ status.t = "ok"
    /\ Bound("@@tmp")
    /\ Cardinality(LabelIndices("@@tmp")) = 4
    /\ label_to_instruction["@@tmp"] = 7

IsPrefix(s, t) == Len(s) <= Len(t) /\ SubSeq(t, 1, Len(s)) = s

\* C8: the instruction vector only grows at its end and no bound label that
\* does not begin with "@@" is ever re-bound; a load by the host appends the
\* assembly, in order, at the old length (all of it unless it fails); a call
\* of a Bytecode value appends its label and the decoded assembly.
C8_AppendOnly ==
    [][/\ IsPrefix(instructions, instructions')
       /\ \A l \in DOMAIN label_to_instruction :
             /\ l \in DOMAIN label_to_instruction'
             /\ ~starts_with(l, "@@") => label_to_instruction'[l] = label_to_instruction[l]
       /\ HostLoads
             => \E k \in 0..Len(api'.asm) :
                   /\ instructions' = instructions \o SubSeq(api'.asm, 1, k)
                   /\ status'.t = "ok" => k = Len(api'.asm)
       /\ (/\ AtInstr("SendMessage")
           /\ Len(stack) >= 3
           /\ stack[Len(stack)].t = "Bytecode"
           /\ stack[Len(stack) - 1] = Str(CALL)
           /\ stack[Len(stack) - 2].t = "Array")
             => instructions' = instructions
                                \o <<Label(anonymous_function_label(VM))>>
                                \o decode(stack[Len(stack)].b)
      ]_vars

\* The same Bytecode value has been called twice, in two runs.
C8_Witness ==
    /\ Idle
    /\ Bound("<anonymous function 0>")
    /\ Bound("<anonymous function 1>")
    /\ label_to_instruction["<anonymous function 1>"] = Len(instructions) - 3

\* C9: a static region is run from its static index: the interpreter, set at
\* a Static instruction by the loader, carries on into the region.
C9_StaticRegionRuns ==
    [][(/\ AtInstr("Static")
        /\ Last(ctl).op = "static")
       => (/\ status'.t = "ok"
           /\ program_counter(VM)' = program_counter(VM) + 1)]_vars

\* C10: whenever a region is run by the loader, global_scope has been
\* applied and not yet undone by back_scope.
C10_StaticInGlobalScope ==
    (Running /\ Last(ctl).op \in {"static", "load_static"})
        => global_saved /= <<>>

\* The call stack as construction leaves it, and as a run leaves it whose
\* last Return emptied it.
CleanCallStacks == {<<>>, <<0>>}

\* The outer loop of a run made by run() has exited with no handle active.
RunReturns ==
    /\ Running
    /\ ~inner_loop(VM)
    /\ handler = NoHandle
    /\ Last(ctl).op = "run"

\* C11: when the outer loop exits with no fault handle active, run pops
\* exactly one value from the operand stack (none when it is empty) and
\* returns success when it is a UInteger, the no-exit-code error when the
\* stack is empty and the invalid-exit-code-type error for any other value;
\* [Push(UInteger 7), Return] run from its label, on the call stack that
\* construction or a run ended by its last Return leaves, returns exit
\* code 7.
C11_ExitCodePop ==
    [][RunReturns
       => /\ status'.t = "ok"
          /\ ctl' = Front(ctl)
          /\ stack' = DropTop(stack)
          /\ stack = <<>> => result' = Err("NoExitCode")
          /\ (stack /= <<>> /\ Last(stack).t = "UInteger") => result'.t = "Ok"
          /\ (stack /= <<>> /\ Last(stack).t /= "UInteger")
                => result' = Err("ExitCodeInvalidType")
          /\ (api = ApiRun("seven") /\ run_base \in CleanCallStacks)
                => result' = Ok(7)]_vars

\* A run has returned the invalid-exit-code-type error for a Str on top of a
\* UInteger, which is still on the stack.
C11_Witness ==
    /\ Idle
    /\ api = ApiRun("strexit")
    /\ result = Err("ExitCodeInvalidType")
    /\ stack = <<UInteger(5)>>

\* C12: the exit code run returns is the UInteger on top of the operand
\* stack at exit, unaltered.
C12_ExitCodeIsValue ==
    [][(RunReturns /\ stack /= <<>> /\ Last(stack).t = "UInteger")
       => result' = Ok(Last(stack).u)]_vars

\* C13: the interpreter has an arm for every instruction of the set: no
\* instruction ends the VM with the "Invalid instruction" abort, and Divide
\* pops two operands and pushes one result.
C13_ClosedInstructionSet ==
    /\ [](~(status.t = "panic" /\ status.why = "Invalid instruction"))
    /\ [][AtInstr("Divide") /\ Len(stack) >= 2
          => (status'.t = "ok" /\ Len(stack') = Len(stack) - 1)]_vars

\* The aborts of the interpreter on a runtime error of the program.
InterpreterAborts ==
    {"unwrap on None", "is not a native method",
     "There should be a target value on the stack",
     "Message must exist and must be of type String",
     "Arguments must be an array of values",
     "Expected a value on the stack for native method call"}

\* C14: a runtime error of the interpreter (a Pop on an empty stack, an
\* unknown native method, ...) never aborts the VM in the middle of a run:
\* run returns an error value instead.
C14_ErrorsAreReturned ==
    (ctl /= <<>> /\ ctl[1].op = "run" /\ status.t = "panic")
        => status.why \notin InterpreterAborts

Primitives == {"Empty", "Byte", "Float", "Integer", "UInteger", "Str", "Array"}

\* The interpreter is about to execute a SendMessage whose three operands
\* (target on top, then the message, then the arguments) are well formed.
AtSend ==
    /\ AtInstr("SendMessage")
    /\ Len(stack) >= 3
    /\ stack[Len(stack) - 1].t = "Str"
    /\ stack[Len(stack) - 2].t = "Array"

\* C15: a SendMessage whose target is a primitive never completes as a
\* no-op that consumes the target, the message and the arguments and
\* continues at pc + 1.
C15_PrimitiveTargetIsFatal ==
    [][(AtSend /\ stack[Len(stack)].t \in Primitives)
       => ~(/\ status'.t = "ok"
            /\ stack' = SubSeq(stack, 1, Len(stack) - 3)
            /\ program_counter(VM)' = program_counter(VM) + 1)]_vars

\* C16: a successfully executed SendMessage changes the depth of the operand
\* stack by -3 when the dispatch is a call (a call-stack entry is pushed)
\* and by -3 + 1 when it is not, whatever the target.
C16_StackBalance ==
    [][(AtSend /\ status'.t = "ok")
       => Len(stack') = Len(stack) - 3
                        + (IF Len(counter_stack') > Len(counter_stack)
                           THEN 0 ELSE 1)]_vars

\* The interpreter is about to execute a NativeMethod whose operands are on
\* the stack.
AtNative ==
    /\ AtInstr("NativeMethod")
    /\ Len(stack) >= InstrAt(program_counter(VM)).n

\* C17: a native method whose name begins with "@" pushes no value onto the
\* operand stack, and every other native method pushes a return value on
\* top of what its operands left.
C17_AtNativesPushNothing ==
    [][(AtNative /\ status'.t = "ok")
       => LET i == InstrAt(program_counter(VM))
              rest == SubSeq(stack, 1, Len(stack) - i.n)
          IN  IF starts_with(i.name, "@")
              THEN stack' = rest
              ELSE /\ Len(stack') > Len(rest)
                   /\ SubSeq(stack', 1, Len(rest)) = rest]_vars

\* C18: NativeMethod("invoke", 3) with, from the top of the operand stack,
\* a target, a message (Str) and the arguments (Array) does what
\* send_message(target, message, arguments) does on the rest of the stack.
C18_InvokeDispatches ==
    [][LET n == Len(stack)
           i == InstrAt(program_counter(VM))
       IN  (/\ AtNative
            /\ i.name = "invoke"
            /\ i.n = 3
            /\ stack[n - 1].t = "Str"
            /\ stack[n - 2].t = "Array")
           => LET sent == send_message([VM EXCEPT !.stack = SubSeq(stack, 1, n - 3)],
                                       stack[n], stack[n - 1].s, stack[n - 2].a)
              IN  /\ status' = sent.vm.status
                  /\ stack' = sent.vm.stack]_vars

\* C19: a CALL of a function pushes the arguments in reverse order: on entry
\* to the callee args[0] is on top of the operand stack, args[1] below it,
\* and so on, on top of the unchanged stack of before the call.
C19_ArgsReversed ==
    [][LET n == Len(stack)
           args == stack[n - 2].a
           rest == SubSeq(stack, 1, n - 3)
       IN  (/\ AtSend
            /\ stack[n].t = "Function"
            /\ stack[n].f.k = "Label"
            /\ Bound(stack[n].f.l)
            /\ stack[n - 1].s = CALL)
           => /\ status'.t = "ok"
              /\ program_counter(VM)' = label_to_instruction[stack[n].f.l]
              /\ Len(stack') = Len(rest) + Len(args)
              /\ SubSeq(stack', 1, Len(rest)) = rest
              /\ \A i \in 1..Len(args) : stack'[Len(stack') - i + 1] = args[i]]_vars

\* "first" has just been entered by a call with the arguments [1, 2] made
\* with 8 on the stack.
C19_Witness ==
    /\ Running
    /\ Bound("first")
    /\ counter_stack = <<label_to_instruction["first"] - 2, label_to_instruction["first"]>>
    /\ stack = <<UInteger(8), UInteger(2), UInteger(1)>>

\* C20: a SendMessage CALL on a Bytecode value appends the decoded assembly
\* under the label "<anonymous function N>", N the counter, which advances:
\* the label is never bound already, so the load never fails on a duplicate
\* label however often the value is called; unless the decoded assembly has
\* static instructions for the loader to run first, control goes to the
\* label with the caller's pc kept below it, so that the callee's Return
\* resumes at pc + 1 with the value the callee pushed; scenario S5, run on
\* the call stack that construction or a run ended by its last Return
\* leaves, exits with code 9.
C20_BytecodeCall ==
    /\ []((Idle /\ api = ApiRun("bc") /\ run_base \in CleanCallStacks)
            => result = Ok(9))
    /\ [][LET n == Len(stack)
               pc == program_counter(VM)
               name == anonymous_function_label(VM)
               decoded == decode(stack[n].b)
           IN  (/\ AtSend
                /\ stack[n].t = "Bytecode"
                /\ stack[n - 1].s = CALL)
               => /\ status'.t = "ok"
                  /\ ~Bound(name)
                  /\ name = "<anonymous function "
                            \o ToString(next_anonymous_function) \o ">"
                  /\ next_anonymous_function' = next_anonymous_function + 1
                  /\ instructions' = instructions \o <<Label(name)>> \o decoded
                  /\ label_to_instruction'[name] = Len(instructions)
                  /\ (\A j \in 1..Len(decoded) : decoded[j] /= Static)
                        => /\ counter_stack' = Front(counter_stack)
                                               \o <<pc, Len(instructions)>>
                           /\ stack' = SubSeq(stack, 1, n - 3)
                                       \o Reverse(stack[n - 2].a)]_vars

\* The same Bytecode value has been called by two runs of "bc", and the
\* second one has returned 9 as well.
C20_Witness ==
    /\ Idle
    /\ api = ApiRun("bc")
    /\ result = Ok(9)
    /\ next_anonymous_function = 2
    /\ Bound("<anonymous function 1>")

\* The run entered at label l, on a call stack that the runs before it left
\* clean, is about to fetch the instruction k places after the label.
AtOffset(l, k) ==
    /\ Running
    /\ inner_loop(VM)
    /\ api = ApiRun(l)
    /\ run_base \in CleanCallStacks
    /\ Bound(l)
    /\ program_counter(VM) = label_to_instruction[l] + k

\* The handle on top of the operand stack, when there is one.
TopIsReference == stack /= <<>> /\ Last(stack).t = "Reference"

\* C21: reference aliasing.  SetRef with a Reference on top and a value
\* beneath it writes the value into the Reference's cell and into no other;
\* Deref of a Reference pushes what its cell holds; GetVar i pushes the
\* handle of slot i's cell.  So after Push v; GetVar i; SetRef a later
\* GetVar i; Deref pushes v, and after IntoReference over 1, a duplicate of
\* the handle and SetRef of one copy to 42, Deref of the other yields 42.
C21_ReferenceAliasing ==
    /\ [][(AtInstr("SetRef") /\ TopIsReference /\ Len(stack) >= 2)
          => LET n == Len(stack)
             IN  /\ status'.t = "ok"
                 /\ heap' = [heap EXCEPT ![stack[n].c] = stack[n - 1]]
                 /\ stack' = SubSeq(stack, 1, n - 2)]_vars
    /\ [][(AtInstr("Deref") /\ TopIsReference)
          => /\ status'.t = "ok"
             /\ heap' = heap
             /\ stack' = Front(stack) \o <<heap[Last(stack).c]>>]_vars
    /\ [][(AtInstr("GetVar") /\ get_var(VM, InstrAt(program_counter(VM)).v) /= 0)
          => stack' = stack \o
                <<Reference(Last(scopes)[InstrAt(program_counter(VM)).v])>>]_vars
    /\ [](AtOffset("alias", 8) => stack = <<Integer(42)>>)
    /\ [](AtOffset("s4", 10) => stack = <<Integer(42)>>)

\* The second handle to the cell made by IntoReference has been dereferenced
\* after the write through the first.
C21_Witness ==
    /\ AtOffset("s4", 10)
    /\ stack = <<Integer(42)>>
    /\ heap[1] = Integer(42)

\* A SendMessage whose target is a Reference to a dictionary that keeps its
\* own messages.
AtSendToDictionary ==
    /\ AtSend
    /\ TopIsReference
    /\ heap[Last(stack).c].t = "Dictionary"
    /\ RECEIVE_MESSAGE \notin DOMAIN heap[Last(stack).c].d

\* C22: put(k, v) sent to a dictionary through a Reference pushes Empty and
\* leaves k bound to v in the Reference's cell; get(k) sent through a
\* Reference to a dictionary that holds k pushes what k is bound to and
\* changes nothing.  With the dictionary in variable 0: after put("x", 5)
\* the variable's table shows the dictionary with "x" bound to 5, and
\* get("x") through a later GetVar 0 pushes Int 5.
C22_DictionaryPutGet ==
    /\ [][LET n == Len(stack)
              c == stack[n].c
              args == stack[n - 2].a
          IN  (/\ AtSendToDictionary
               /\ stack[n - 1].s = "put"
               /\ Len(args) >= 2
               /\ args[1].t = "Str")
              => /\ status'.t = "ok"
                 /\ stack' = SubSeq(stack, 1, n - 3) \o <<Empty>>
                 /\ args[1].s \in DOMAIN heap'[c].d
                 /\ heap'[c].d[args[1].s] = args[2]
                 /\ \A k \in DOMAIN heap[c].d \ {args[1].s} :
                        k \in DOMAIN heap'[c].d /\ heap'[c].d[k] = heap[c].d[k]]_vars
    /\ [][LET n == Len(stack)
              c == stack[n].c
              args == stack[n - 2].a
          IN  (/\ AtSendToDictionary
               /\ stack[n - 1].s = "get"
               /\ Len(args) >= 1
               /\ args[1].t = "Str"
               /\ args[1].s \in DOMAIN heap[c].d)
              => /\ status'.t = "ok"
                 /\ stack' = SubSeq(stack, 1, n - 3) \o <<heap[c].d[args[1].s]>>
                 /\ heap' = heap]_vars
    /\ [](AtOffset("dict", 8)
            => table(VM)[0] = Dictionary("x" :> Integer(5)))
    /\ [](AtOffset("dict", 12) => stack = <<Integer(5)>>)

\* get("x") has pushed the 5 that put("x", 5) left in the variable's cell.
C22_Witness ==
    /\ AtOffset("dict", 12)
    /\ stack = <<Integer(5)>>
    /\ table(VM)[0] = Dictionary("x" :> Integer(5))

\* The interpreter is about to fetch NativeMethod(name, 1) with its operand
\* on the stack.
AtScopeNative(name) ==
    /\ AtNative
    /\ InstrAt(program_counter(VM)) = NativeMethod(name, 1)

\* The cells that the saved scopes name.
SavedCells ==
    UNION {{scope_dict[k][v] : v \in DOMAIN scope_dict[k]} : k \in DOMAIN scope_dict}

\* C23: @save_scope k files the current scope under the hash of k and
\* @load_scope k makes the scope filed under the hash of k the current one;
\* SetVar, ClearVar, @push_scope and @pop_scope change neither the filed
\* scopes nor what their cells hold; so after @load_scope k the current
\* variable table is the one that stood at the last @save_scope k.
C23_ScopeRoundTrip ==
    /\ [][AtScopeNative("@save_scope")
          => /\ status'.t = "ok"
             /\ scope_dict' = (hash(Last(stack)) :> Last(scopes)) @@ scope_dict
             /\ stack' = Front(stack)]_vars
    /\ [][(AtScopeNative("@load_scope") /\ hash(Last(stack)) \in DOMAIN scope_dict)
          => /\ status'.t = "ok"
             /\ Last(scopes') = scope_dict[hash(Last(stack))]
             /\ Front(scopes') = Front(scopes)
             /\ table(VM)' = saved_tables[hash(Last(stack))]
             /\ stack' = Front(stack)]_vars
    /\ [][(\/ AtInstr("SetVar")
           \/ AtInstr("ClearVar")
           \/ (AtNative /\ InstrAt(program_counter(VM)).name
                              \in {"@push_scope", "@pop_scope"}))
          => /\ scope_dict' = scope_dict
             /\ \A c \in SavedCells : heap'[c] = heap[c]]_vars

\* @load_scope has brought back the table saved under "k" after variable 0
\* was set anew and a scope was pushed, written to and popped.
C23_Witness ==
    /\ AtOffset("scope", 14)
    /\ table(VM) = (0 :> Integer(1))
    /\ \E k \in DOMAIN saved_tables : saved_tables[k] = (0 :> Integer(1))
    /\ Len(heap) = 3
    /\ heap[2] = Integer(2)

C25_MagicNumber ==
    /\ magic.phase /= "panic"
    /\ magic.returned.t = "u64" => magic.returned.n = MagicConstant
    /\ (magic.phase = "idle" /\ magic.returned.t = "bool")
          => magic.returned.b = (magic.number = MagicConstant)

\* C26: while a load or a run is in progress (any instruction, native
\* method, dynamic_call or call of a label that a plugin provides, the native
\* calls a plugin makes back through the VM handle under the read guard
\* included) the write guard of the plugin manager is never acquired, and
\* the interpreter never blocks on a guard of the plugin manager.
C26_NoWriteGuardWhileInterpreting ==
    /\ [](status.why /= "blocked on the plugin manager")
    /\ [][(ctl /= <<>> \/ ctl' /= <<>>)
              => plugin_manager'.writes = plugin_manager.writes]_vars

\* A function of a plugin that was called under a read guard has called
\* dynamic_call back, and the function that this calls runs: two read
\* guards are held.
C26_Witness ==
    /\ Running
    /\ Len(ctl) >= 3
    /\ Last(ctl).op = "plugin" /\ Last(ctl).name = "inner"
    /\ Last(Front(ctl)).op = "plugin" /\ Last(Front(ctl)).name = "nested"
    /\ plugin_manager.readers = 2
    /\ ~plugin_manager.writer

\* A GetSymbol of an unbound label whose fault has Function(Label l) with l
\* unbound as its target.
AtDoubleFault ==
    /\ AtInstr("GetSymbol")
    /\ ~Bound(InstrAt(program_counter(VM)).s)
    /\ fault_table["MissingSymbol"] = Function(AsmLabel("handler"))
    /\ ~Bound("handler")

\* C28: when the handler of a fault is Function(Label l) with l unbound and
\* DoubleFault is raised in its place, the VM ends in fault with one handle,
\* and the stacks that handle restores are the call stack and the operand
\* stack from before the original fault.
C28_DoubleFaultKeepsUserStacks ==
    [][(AtDoubleFault /\ status'.t = "ok")
       => /\ handler' /= NoHandle
          /\ kernel_mode'
          /\ handler'.stored_pc = counter_stack
          /\ handler'.stored_stack = stack]_vars

\* C29: raising a fault ends after finitely many raises of DoubleFault, in
\* fault or with the VM terminated: the recursion of fault() is never
\* without end.
C29_FaultTerminates == ~(status.t = "panic" /\ status.why = "stack overflow")

\* C30: when the native invoke dispatches CALL to a Function, the entry that
\* call pushes is paired with the program counter going to the function's
\* entry: the next instruction fetched is the function's first, with the
\* invoking instruction's index kept beneath it for the Return.
C30_InvokePairsCallEntry ==
    [][LET n == Len(stack)
           i == InstrAt(program_counter(VM))
       IN  (/\ AtNative
            /\ i.name = "invoke"
            /\ i.n = 3
            /\ stack[n].t = "Array"
            /\ stack[n - 1] = Str(CALL)
            /\ stack[n - 2].t = "Function"
            /\ stack[n - 2].f.k = "Label"
            /\ Bound(stack[n - 2].f.l))
           => /\ status'.t = "ok"
              /\ counter_stack' = counter_stack
                                    \o <<label_to_instruction[stack[n - 2].f.l]>>]_vars

\* The identifiers a path may stand for: the path taken as absolute, the
\* path relative to the current namespace, the path relative to each
\* namespace in use.
Candidates(path) ==
    {BASE_NAMESPACE \o path, current_namespace_with_base(resolver) \o path}
        \cup {resolver.using_namespaces[k] \o path :
                  k \in DOMAIN resolver.using_namespaces}

Existing(path) == Candidates(path) \cap resolver.objects

\* C27: resolve_path returns the one identifier that exists among the
\* candidates when exactly one does, AmbiguousIdentifierError with all of
\* them when two or more distinct ones do, and IdentifierDoesNotExist when
\* none does; with n1::n2::object and n2::object created, n2::object
\* resolves from namespace n2 and is ambiguous from namespace n1.
C27_ResolvePath ==
    /\ [][\A path \in {<<"object">>, <<"n2", "object">>} :
            ResolvePath(path)
              => LET existing == Existing(path)
                     returned == resolver'.returned
                 IN  /\ Cardinality(existing) = 1
                          => returned = [t |-> "Ok",
                                         id |-> Tail(CHOOSE id \in existing : TRUE)]
                     /\ Cardinality(existing) >= 2
                          => returned = [t |-> "AmbiguousIdentifierError",
                                         given |-> path,
                                         found |-> {Tail(id) : id \in existing}]
                     /\ existing = {}
                          => returned = [t |-> "IdentifierDoesNotExist",
                                         given |-> path]]_vars
    /\ [][(/\ ResolvePath(<<"n2", "object">>)
           /\ {BASE_NAMESPACE \o <<"n1", "n2", "object">>,
               BASE_NAMESPACE \o <<"n2", "object">>} = resolver.objects
           /\ resolver.using_namespaces = <<>>)
          => /\ resolver.current_namespace = <<"n2">>
                  => resolver'.returned = [t |-> "Ok", id |-> <<"n2", "object">>]
             /\ resolver.current_namespace = <<"n1">>
                  => resolver'.returned =
                         [t |-> "AmbiguousIdentifierError",
                          given |-> <<"n2", "object">>,
                          found |-> {<<"n2", "object">>,
                                     <<"n1", "n2", "object">>}]]_vars

\* n2::object has been found ambiguous from namespace n1.
C27_Witness ==
    /\ resolver.current_namespace = <<"n1">>
    /\ resolver.using_namespaces = <<>>
    /\ resolver.returned = [t |-> "AmbiguousIdentifierError",
                            given |-> <<"n2", "object">>,
                            found |-> {<<"n2", "object">>, <<"n1", "n2", "object">>}]

\* C31: a run in which a fault is raised terminates when the user code and
\* the handler code have no loop, also when the code run for the fault ends
\* with Return: once the stacks are restored at the boundary of the loop, the
\* loop that is entered again does not fetch the faulting instruction again.
C31_FaultedRunTerminates ==
    ~(/\ last_fault /= NoHandle
      /\ counter_stack = last_fault.stored_pc
      /\ AtInstr("GetSymbol")
      /\ ~Bound(InstrAt(program_counter(VM)).s))

\* C32: whenever run returns, the call stack holds no live frame: it is
\* empty or <<0>>, also when the run ended at a Halt, so that the last
\* Return of a later run ends that run.
C32_RunLeavesNoFrame ==
    (Idle /\ api.op = "run") => counter_stack \in CleanCallStacks

\* C33: after Halt has cleared the continue flag no instruction is
\* interpreted before the run returns: while a handle is active the only
\* step is the one that ends the fault, which restores the call stack and
\* leaves the flag false, and with no handle active the run returns; every
\* run that is entered starts with the flag true.
C33_HaltEndsRun ==
    [][/\ (Running /\ ~cont /\ Last(ctl).op /= "plugin") =>
              IF handler /= NoHandle
              THEN /\ ctl' = ctl
                   /\ ~cont'
                   /\ handler' = NoHandle
                   /\ counter_stack' = handler.stored_pc
              ELSE ctl' /= ctl
       /\ (/\ ctl' /= ctl
           /\ Len(ctl') >= Len(ctl)
           /\ Last(ctl').op /= "plugin"
           /\ status'.t = "ok") => cont']_vars

\* Halt has run while a fault was handled, the fault has been ended, and the
\* loop that is entered again finds the program counter on an instruction
\* and the flag false.
C33_Witness ==
    /\ Running
    /\ last_fault /= NoHandle
    /\ ~cont
    /\ counter_stack = last_fault.stored_pc
    /\ program_counter(VM) \in 1..(Len(instructions) - 1)

\* C34: no instruction is fetched outside the indices 1 .. length - 1: when
\* the program counter is 0 or at or past the length, whatever instruction
\* took it there and whatever the continue flag, the next step of the run
\* is the end of the fault being handled or the return of the run, never
\* the interpretation of an instruction.
C34_FetchInRange ==
    [][(/\ Running
        /\ Last(ctl).op /= "plugin"
        /\ program_counter(VM) \notin 1..(Len(instructions) - 1)) =>
           IF handler /= NoHandle
           THEN /\ ctl' = ctl
                /\ handler' = NoHandle
                /\ counter_stack' = handler.stored_pc
           ELSE ctl' /= ctl]_vars

\* A Goto has taken the program counter past the last instruction with the
\* continue flag true.
C34_Witness ==
    /\ Running
    /\ cont
    /\ api = ApiRun("past")
    /\ program_counter(VM) >= Len(instructions)

C40_PackKeepsStackOrder ==
    [][(/\ AtInstr("Pack")
        /\ Last(ctl).op /= "plugin"
        /\ Len(stack) >= InstrAt(program_counter(VM)).len) =>
           LET n == InstrAt(program_counter(VM)).len
               rest == Len(stack) - n
           IN  /\ stack' = SubSeq(stack, 1, rest) \o
                           <<Array(SubSeq(stack, rest + 1, Len(stack)))>>
               /\ status'.t = "ok"]_vars

\* Pack(2) has packed 1, pushed first, and 2, and Pack(0) the empty Array.
C40_Witness ==
    /\ AtOffset("pack", 5)
    /\ stack = <<Array(<<Integer(1), Integer(2)>>), Array(<<>>)>>

NoStatic(asm) == \A i \in 1..Len(asm) : asm[i].op /= "Static"

\* The SendMessage about to be interpreted sends CALL to a Bytecode value
\* whose code holds no Static instruction.
AtBytecodeCall ==
    /\ AtInstr("SendMessage")
    /\ Len(stack) >= 3
    /\ Last(stack).t = "Bytecode"
    /\ stack[Len(stack) - 1] = Str(CALL)
    /\ NoStatic(decode(Last(stack).b))

\* C35: a load of an assembly with no Static instruction leaves the call
\* stack, the operand stack, the scopes, the continue flag, kernel mode and
\* the fault handle as they are: the load the host makes, and the load that
\* SendMessage CALL makes of the code of a Bytecode value while a run is
\* under way, before the call of the loaded label.
C35_LoadKeepsMachine ==
    /\ [](AtBytecodeCall =>
              LET loaded == load_append(VM, <<Label(anonymous_function_label(VM))>>
                                            \o decode(Last(stack).b),
                                        1, Len(instructions), {})
              IN  /\ loaded.static_instructions = {}
                  /\ loaded.vm.counter_stack = counter_stack
                  /\ loaded.vm.stack = stack
                  /\ loaded.vm.scopes = scopes
                  /\ loaded.vm.cont = cont
                  /\ loaded.vm.kernel_mode = kernel_mode
                  /\ loaded.vm.handler = handler)
    /\ [][(api'.op = "load" /\ calls' = calls + 1 /\ NoStatic(api'.asm)) =>
              UNCHANGED <<counter_stack, stack, scopes, cont, kernel_mode,
                          handler>>]_vars

\* A run whose call stack holds an entry is about to load the code of a
\* Bytecode value that the VM has not loaded before.
C35_Witness ==
    /\ AtBytecodeCall
    /\ counter_stack /= <<>>
    /\ ~Bound(anonymous_function_label(VM))
    /\ Len(load_append(VM, <<Label(anonymous_function_label(VM))>>
                           \o decode(Last(stack).b),
                       1, Len(instructions), {}).vm.instructions)
           = Len(instructions) + 3

\* The SendMessage about to be interpreted sends CALL to a Function whose
\* target is a label that a registered plugin provides.
AtPluginCall ==
    /\ AtInstr("SendMessage")
    /\ Last(ctl).op /= "plugin"
    /\ Len(stack) >= 3
    /\ Last(stack).t = "Function"
    /\ Last(stack).f.k = "Label"
    /\ stack[Len(stack) - 1] = Str(CALL)
    /\ stack[Len(stack) - 2].t = "Array"
    /\ \E p \in plugin_manager.plugins : Last(stack).f.l \in DOMAIN Plugins[p]

\* The function of a plugin that a SendMessage called is about to return.
AtPluginReturn ==
    /\ Running
    /\ Len(ctl) >= 2
    /\ Last(ctl).op = "plugin"
    /\ Last(ctl).args = <<>>
    /\ Last(Front(ctl)).op /= "plugin"
    /\ InstrAt(program_counter(VM)).op = "SendMessage"

\* C36: a call of Label(l) with l provided by a registered plugin pushes
\* the arguments and runs the plugin's function, whether or not a label l
\* is loaded; while the function runs the call stack is the caller's; when
\* it returns its result is pushed on top of the operand stack, no entry
\* has been added to the call stack and the run continues at the
\* instruction after the call.
C36_PluginLabelCall ==
    [][/\ AtPluginCall =>
              /\ Len(ctl') = Len(ctl) + 1
              /\ Last(ctl').op = "plugin"
              /\ Last(ctl').name = Last(stack).f.l
              /\ stack' = SubSeq(stack, 1, Len(stack) - 3)
                          \o Reverse(stack[Len(stack) - 2].a)
              /\ counter_stack' = counter_stack
       /\ AtPluginReturn =>
              /\ ctl' = Front(ctl)
              /\ Front(stack') = stack
              /\ \E p \in plugin_manager.plugins :
                     /\ Last(ctl).name \in DOMAIN Plugins[p]
                     /\ Last(stack') = Plugins[p][Last(ctl).name].result
              /\ counter_stack' = Front(counter_stack)
                                  \o <<program_counter(VM) + 1>>]_vars

\* The call of "leaf" with the arguments 1 and 2, made with the label "leaf"
\* loaded and the plugin that provides "leaf" registered, has returned: the
\* arguments and the plugin's result are on the stack and the run is at the
\* instruction after the call.
C36_Witness ==
    /\ AtOffset("shadow", 5)
    /\ Bound("leaf")
    /\ "base" \in plugin_manager.plugins
    /\ stack = <<UInteger(2), UInteger(1), UInteger(7)>>
    /\ Len(counter_stack) = Len(run_base) + 1

\* The SendMessage about to be interpreted sends a message to a Dictionary
\* that lies on the operand stack.
AtDictionarySend ==
    /\ AtInstr("SendMessage")
    /\ Last(ctl).op /= "plugin"
    /\ Len(stack) >= 3
    /\ Last(stack).t = "Dictionary"
    /\ stack[Len(stack) - 1].t = "Str"
    /\ stack[Len(stack) - 2].t = "Array"

\* The dictionary's RECEIVE_MESSAGE key holds a Function of a loaded label
\* that no registered plugin provides.
ReceiverIsLoadedFunction(d) ==
    /\ RECEIVE_MESSAGE \in DOMAIN d
    /\ d[RECEIVE_MESSAGE].t = "Function"
    /\ d[RECEIVE_MESSAGE].f.k = "Label"
    /\ Bound(d[RECEIVE_MESSAGE].f.l)
    /\ \A p \in plugin_manager.plugins :
           d[RECEIVE_MESSAGE].f.l \notin DOMAIN Plugins[p]

\* C37: a message to a Dictionary whose RECEIVE_MESSAGE key holds a value
\* other than Native is sent on to that value as CALL with the same
\* arguments, get and put included, and nothing of the dictionary is
\* pushed; without the key, or with Native under it, get(k) pushes what the
\* dictionary holds under k, put(k, v) pushes Empty, and every other message
\* is fatal.
C37_DictionaryDispatch ==
    [][AtDictionarySend =>
           LET n == Len(stack)
               d == stack[n].d
               message == stack[n - 1].s
               args == stack[n - 2].a
               rest == SubSeq(stack, 1, n - 3)
               pc == program_counter(VM)
           IN  IF RECEIVE_MESSAGE \in DOMAIN d /\ d[RECEIVE_MESSAGE] /= Native
               THEN ReceiverIsLoadedFunction(d) =>
                        /\ stack' = rest \o Reverse(args)
                        /\ counter_stack' =
                               Append(counter_stack,
                                      label_to_instruction[d[RECEIVE_MESSAGE].f.l])
                        /\ status'.t = "ok"
               ELSE CASE message = "get" /\ Len(args) >= 1 /\ args[1].t = "Str"
                         /\ args[1].s \in DOMAIN d ->
                           /\ stack' = Append(rest, d[args[1].s])
                           /\ counter_stack' = Front(counter_stack) \o <<pc + 1>>
                      [] message = "put" /\ Len(args) >= 2 /\ args[1].t = "Str" ->
                           /\ stack' = Append(rest, Empty)
                           /\ counter_stack' = Front(counter_stack) \o <<pc + 1>>
                      [] message \notin {"get", "put"} -> status'.t = "panic"
                      [] OTHER -> TRUE]_vars

\* get(x) sent to a dictionary that holds Native under RECEIVE_MESSAGE and 5
\* under x has pushed 5, put(y, 1) sent to a dictionary without the key has
\* pushed Empty, and the run is about to send a message that is fatal.
C37_Witness ==
    /\ AtOffset("builtin", 13)
    /\ AtDictionarySend
    /\ stack[Len(stack) - 1] = Str("len")
    /\ Head(stack) = UInteger(5)

\* C38: ClearVar(i) removes slot i of the current scope, so that a GetVar(i)
\* finds it unset until the next SetVar(i), and leaves the other slots as
\* they are.
C38_ClearVarRemovesSlot ==
    [][(AtInstr("ClearVar") /\ Last(ctl).op /= "plugin") =>
           LET i == InstrAt(program_counter(VM)).v
           IN  /\ i \notin DOMAIN Last(scopes')
               /\ \A j \in DOMAIN Last(scopes) \ {i} :
                      /\ j \in DOMAIN Last(scopes')
                      /\ Last(scopes')[j] = Last(scopes)[j]]_vars

==============================================================================
